---- MODULE Spec2Model ----
(***************************************************************************)
(* A model of the optimizer's PassManager (src/src/optimizer/              *)
(* pass_manager.rs): the registry of passes, the requested pipeline, the   *)
(* named groups, the statistics of the last run, and PassManager::run      *)
(* with its dependency check, Kahn topological sort and cycle search.      *)
(*                                                                         *)
(* A pass (an implementation of the Pass trait) is a record                *)
(*   [deps |-> <<names>>, cond |-> how should_run reads the module].       *)
(* The Module handed to run is abstracted to the number of rewrites that   *)
(* have been applied to it: every Pass::run adds one.  The verbose flag,   *)
(* which only prints, and the wall-clock durations are left out.           *)
(*                                                                         *)
(* The later parts model the passes themselves (src/src/optimizer/passes:  *)
(* constant folding with its i64 arithmetic, dead-code elimination,        *)
(* common-subexpression elimination, SSA renumbering) at work on one       *)
(* function, under SpecPasses, and the instruction lists of the basic      *)
(* blocks with the parent back-reference of the instructions               *)
(* (src/src/ir/basic_block.rs), under SpecBlocks.  SpecFold runs the       *)
(* constant folder alone, with the fairness of its loop, and SpecTypes     *)
(* builds the Type objects of src/src/ir/types.rs.                         *)
(***************************************************************************)
EXTENDS Integers, Sequences, FiniteSets, TLC

VARIABLES registered, pipeline, groups, collect_stats, last_run_stats, ret,
          func, func_before, applied, changed,
          instructions, parent_bb,
          types

\* The PassManager and the value its last call returned.
pmvars == <<registered, pipeline, groups, collect_stats, last_run_stats, ret>>
\* The function the optimization passes rewrite: as it is, as it was when the
\* last pass was started, the passes run on it so far (the last one last), and
\* the loop variable of ConstantFoldingPass, TRUE while that pass is running.
irvars == <<func, func_before, applied, changed>>
\* The instruction lists of the basic blocks and the parent back-reference of
\* the instructions.
bbvars == <<instructions, parent_bb>>
\* The Type objects that have been created, in the order of their creation:
\* a TypeRef is the position of the object it points to.
tyvars == <<types>>

vars == <<registered, pipeline, groups, collect_stats, last_run_stats, ret,
          func, func_before, applied, changed, instructions, parent_bb, types>>

(***************************************************************************)
(* Bounds of the model.                                                    *)
(***************************************************************************)
MaxDeps == 2
MaxEdges == 3
MaxPipeline == 3
MaxModule == 1
StatsMaxEdges == 1
StatsMaxPipeline == 2
MaxGroup == 2
GroupsMaxPipeline == 4
MaxRuns == 2
DceMaxInstrs == 3
CseInstrs == 4
CseMaxInstrs == 2
RenumberMaxInstrs == 2
MaxBlocks == 2

\* The pass identifiers the environment uses (registered or not).
Names == {"A", "B", "C"}
\* The group names the environment uses.
GroupNames == {"G", "H"}
\* The should_run implementations the environment registers.
Conds == {"always", "ifClean"}
\* The modules the caller hands to run.
Modules == 0..MaxModule

(***************************************************************************)
(* Sequence helpers (Vec operations).                                      *)
(***************************************************************************)
Range(s) == {s[i] : i \in 1..Len(s)}

\* Vec::contains
Contains(s, x) == \E i \in 1..Len(s) : s[i] = x

\* Iterator::position: the first index holding x (0 when there is none).
Position(s, x) ==
    IF Contains(s, x) THEN CHOOSE i \in 1..Len(s) : s[i] = x /\ \A j \in 1..(i - 1) : s[j] # x
    ELSE 0

SeqsUpTo(S, n) == UNION {[1..k -> S] : k \in 0..n}

NoDuplicates(s) == \A i, j \in 1..Len(s) : s[i] = s[j] => i = j

(***************************************************************************)
(* The Pass trait.                                                         *)
(***************************************************************************)
PassImpls == [deps : SeqsUpTo(Names, MaxDeps), cond : Conds]

\* Pass::should_run on a module.
ShouldRun(pass, module) ==
    CASE pass.cond = "always" -> TRUE
      [] pass.cond = "ifClean" -> module = 0

\* Pass::run on a module: an in-place rewrite.
RunPass(pass, module) == module + 1

(***************************************************************************)
(* PassManager::check_dependencies: the errors the scan over the registry  *)
(* (a HashMap, in no fixed order) can return; for one pass, the first of   *)
(* its dependencies that is not registered.                                *)
(***************************************************************************)
Registered(reg, name) == name \in DOMAIN reg

FirstMissing(reg, deps) ==
    IF \E j \in 1..Len(deps) : ~Registered(reg, deps[j])
    THEN CHOOSE j \in 1..Len(deps) :
            /\ ~Registered(reg, deps[j])
            /\ \A k \in 1..(j - 1) : Registered(reg, deps[k])
    ELSE 0

\* A check that looks only at the passes of the requested pipeline.
CheckDependencies_PipelineOnly(reg) ==
    {<<name, reg[name].deps[FirstMissing(reg, reg[name].deps)]>> :
        name \in {n \in DOMAIN reg \cap Range(pipeline) : FirstMissing(reg, reg[n].deps) # 0}}

CheckDependencies(reg) ==
    {<<name, reg[name].deps[FirstMissing(reg, reg[name].deps)]>> :
        name \in {n \in DOMAIN reg : FirstMissing(reg, reg[n].deps) # 0}}

(***************************************************************************)
(* PassManager::topological_sort, after check_dependencies.                *)
(***************************************************************************)
\* A scan that reports the last unregistered pipeline entry.
FirstUnregistered_Last(reg, pipe) ==
    IF \E i \in 1..Len(pipe) : ~Registered(reg, pipe[i])
    THEN CHOOSE i \in 1..Len(pipe) :
            /\ ~Registered(reg, pipe[i])
            /\ \A k \in (i + 1)..Len(pipe) : Registered(reg, pipe[k])
    ELSE 0

\* The first pipeline entry that is not registered (0 when all are).
FirstUnregistered(reg, pipe) ==
    IF \E i \in 1..Len(pipe) : ~Registered(reg, pipe[i])
    THEN CHOOSE i \in 1..Len(pipe) :
            /\ ~Registered(reg, pipe[i])
            /\ \A k \in 1..(i - 1) : Registered(reg, pipe[k])
    ELSE 0

\* graph and in_degree after the initialisation loop: one key per pipeline name.
EmptyGraph(pipe) ==
    [graph |-> [n \in Range(pipe) |-> <<>>], in_degree |-> [n \in Range(pipe) |-> 0]]

\* Only a dependency that is itself in the pipeline makes an edge.
IsEdge(pipe, dep) == Contains(pipe, dep)

\* A graph builder that counts every declared dependency in the in-degree,
\* in the pipeline or not.
RECURSIVE AddDependencies_CountAll(_, _, _, _, _)
AddDependencies_CountAll(g, pipe, name, deps, j) ==
    IF j > Len(deps) THEN g
    ELSE AddDependencies_CountAll(
            [graph |-> IF IsEdge(pipe, deps[j])
                       THEN [g.graph EXCEPT ![deps[j]] = Append(@, name)]
                       ELSE g.graph,
             in_degree |-> [g.in_degree EXCEPT ![name] = @ + 1]],
            pipe, name, deps, j + 1)

\* The inner loop over pass.dependencies() for one pipeline entry.
RECURSIVE AddDependencies(_, _, _, _, _)
AddDependencies(g, pipe, name, deps, j) ==
    IF j > Len(deps) THEN g
    ELSE IF IsEdge(pipe, deps[j])
         THEN AddDependencies(
                [graph |-> [g.graph EXCEPT ![deps[j]] = Append(@, name)],
                 in_degree |-> [g.in_degree EXCEPT ![name] = @ + 1]],
                pipe, name, deps, j + 1)
         ELSE AddDependencies(g, pipe, name, deps, j + 1)

\* The loop over the pipeline that builds the graph and the in-degrees.
RECURSIVE BuildGraphFrom(_, _, _, _)
BuildGraphFrom(g, reg, pipe, i) ==
    IF i > Len(pipe) THEN g
    ELSE BuildGraphFrom(AddDependencies(g, pipe, pipe[i], reg[pipe[i]].deps, 1),
                        reg, pipe, i + 1)

BuildGraph(reg, pipe) == BuildGraphFrom(EmptyGraph(pipe), reg, pipe, 1)

\* A scheduler that takes the ready passes from the back of the pipeline.
RECURSIVE Reverse(_)
Reverse(q) == IF q = <<>> THEN <<>> ELSE Append(Reverse(Tail(q)), Head(q))

InitialQueue_Reversed(pipe, in_degree) ==
    Reverse(SelectSeq(pipe, LAMBDA n : in_degree[n] = 0))

\* A scheduler that queues every pipeline name at the start, whatever its in-degree.
InitialQueue_All(pipe, in_degree) == pipe

\* The pipeline names of in-degree 0, in pipeline order.
InitialQueue(pipe, in_degree) == SelectSeq(pipe, LAMBDA n : in_degree[n] = 0)

\* `*in_deg -= 1` on a usize.  A usize is written here by its representative
\* modulo 2^64 of least absolute value, so usize::MAX (the value 0 - 1 wraps
\* to when overflow checks are off) is -1; a test against 0 is unaffected.
UsizeDecrement(x) == x - 1

\* The loop over graph[name] that lowers the in-degree of every successor.
RECURSIVE Relax(_, _, _)
Relax(st, succs, k) ==
    IF k > Len(succs) THEN st
    ELSE LET next == succs[k]
             in_deg == UsizeDecrement(st.in_degree[next])
         IN  Relax([sorted |-> st.sorted,
                    queue |-> IF in_deg = 0 THEN Append(st.queue, next) ELSE st.queue,
                    in_degree |-> [st.in_degree EXCEPT ![next] = in_deg],
                    underflow |-> st.underflow \/ st.in_degree[next] = 0],
                   succs, k + 1)

\* Kahn's algorithm: `while let Some(name) = queue.pop_front()`.
RECURSIVE Kahn(_, _)
Kahn(st, graph) ==
    IF st.queue = <<>> THEN st
    ELSE LET name == Head(st.queue)
         IN  Kahn(Relax([st EXCEPT !.queue = Tail(@), !.sorted = Append(@, name)],
                        graph[name], 1),
                  graph)

(***************************************************************************)
(* PassManager::find_cycle: the depth-first search, its mutable arguments  *)
(* (visited, stack, cycle) and its return value in one record.             *)
(***************************************************************************)
RECURSIVE find_cycle(_, _, _)
RECURSIVE find_cycle_loop(_, _, _, _)
find_cycle(node, graph, st) ==
    IF st.cycle # <<>> THEN [st EXCEPT !.found = TRUE]
    ELSE IF Contains(st.stack, node)
    THEN [st EXCEPT !.cycle = SubSeq(st.stack, Position(st.stack, node), Len(st.stack))
                                 \o <<node>>,
                    !.found = TRUE]
    ELSE IF node \in st.visited THEN [st EXCEPT !.found = FALSE]
    ELSE find_cycle_loop(node, graph,
                         [st EXCEPT !.visited = @ \cup {node}, !.stack = Append(@, node)],
                         1)

find_cycle_loop(node, graph, st, k) ==
    IF k > Len(graph[node])
    THEN [st EXCEPT !.stack = SubSeq(@, 1, Len(@) - 1), !.found = FALSE]
    ELSE LET r == find_cycle(graph[node][k], graph, st)
         IN  IF r.found THEN r ELSE find_cycle_loop(node, graph, r, k + 1)

\* The first pipeline entry that the sort did not output (0 when there is none).
FirstUnsorted(pipe, sorted) ==
    IF \E i \in 1..Len(pipe) : ~Contains(sorted, pipe[i])
    THEN CHOOSE i \in 1..Len(pipe) :
            /\ ~Contains(sorted, pipe[i])
            /\ \A k \in 1..(i - 1) : Contains(sorted, pipe[k])
    ELSE 0

\* The cycle reported when the sorted list is shorter than the pipeline.
ReportedCycle(pipe, sorted, graph) ==
    LET unsorted == FirstUnsorted(pipe, sorted)
    IN  IF unsorted = 0 THEN <<>>
        ELSE find_cycle(pipe[unsorted], graph,
                        [visited |-> {}, stack |-> <<>>, cycle |-> <<>>,
                         found |-> FALSE]).cycle

\* The sort proper: what topological_sort returns once check_dependencies
\* has passed, with overflow checks off; underflow tells whether an
\* in-degree was decremented at 0 on the way.
KahnSort(reg, pipe) ==
    LET unregistered == FirstUnregistered(reg, pipe)
        g == BuildGraph(reg, pipe)
        k == Kahn([sorted |-> <<>>, queue |-> InitialQueue(pipe, g.in_degree),
                   in_degree |-> g.in_degree, underflow |-> FALSE], g.graph)
    IN  IF unregistered # 0
        THEN [kind |-> "NotRegistered", names |-> <<pipe[unregistered]>>,
              sorted |-> <<>>, underflow |-> FALSE]
        ELSE IF Len(k.sorted) # Len(pipe)
             THEN [kind |-> "CircularDependency",
                   names |-> ReportedCycle(pipe, k.sorted, g.graph),
                   sorted |-> <<>>, underflow |-> k.underflow]
             ELSE [kind |-> "Ok", names |-> <<>>, sorted |-> k.sorted,
                   underflow |-> k.underflow]

\* Every outcome of topological_sort: a MissingDependency for any pass the
\* registry scan may meet first; otherwise the sort, or, where an in-degree
\* underflows, also the panic of a build with overflow checks on.
topological_sort(reg, pipe) ==
    LET missing == CheckDependencies(reg)
        sort == KahnSort(reg, pipe)
    IN  IF missing # {}
        THEN {[kind |-> "MissingDependency", names |-> <<e[1], e[2]>>, sorted |-> <<>>,
               underflow |-> FALSE] : e \in missing}
        ELSE IF sort.underflow
             THEN {sort, [kind |-> "Panic", names |-> <<>>, sorted |-> <<>>,
                          underflow |-> TRUE]}
             ELSE {sort}

(***************************************************************************)
(* PassManager::run.                                                       *)
(***************************************************************************)
\* The record a call leaves in ret: the operation and the group it was
\* called on, what it returned, the names the error carries, and for run
\* the calls it made into the passes (each with the module it was given)
\* and the module before and after.
Returned(op, group, kind, names, calls, before, after) ==
    [op |-> op, group |-> group, kind |-> kind, names |-> names, calls |-> calls,
     module_before |-> before, module_after |-> after]

\* What an operation that returns nothing leaves in ret.
NoReturn == Returned("none", "", "Ok", <<>>, <<>>, 0, 0)

Call(fn, name, module) == [fn |-> fn, pass |-> name, module |-> module]

\* PassStatistics without the wall-clock duration; the skip reason is the
\* text the source gives ("condition not satisfied") or None.
Executed(name) == [name |-> name, skipped |-> FALSE, skip_reason |-> "None"]
Skipped(name) == [name |-> name, skipped |-> TRUE, skip_reason |-> "condition not satisfied"]

\* One turn of the loop over sorted_pipeline.
ExecuteOne(reg, name, collect, st) ==
    IF ~Registered(reg, name) THEN st
    ELSE LET should_run == ShouldRun(reg[name], st.module)
             asked == Append(st.calls, Call("should_run", name, st.module))
         IN  IF should_run
             THEN [module |-> RunPass(reg[name], st.module),
                   calls |-> Append(asked, Call("run", name, st.module)),
                   stats |-> IF collect THEN Append(st.stats, Executed(name)) ELSE st.stats]
             ELSE [module |-> st.module,
                   calls |-> asked,
                   stats |-> IF collect THEN Append(st.stats, Skipped(name)) ELSE st.stats]

\* A loop that asks every should_run on the module as it is handed to the
\* loop, not as the earlier passes have left it.
RECURSIVE ExecuteAsOf(_, _, _, _, _, _)
ExecuteAsOf(reg, sorted, i, collect, st, m0) ==
    IF i > Len(sorted) THEN st
    ELSE LET name == sorted[i]
             asked == Append(st.calls, Call("should_run", name, m0))
         IN  ExecuteAsOf(reg, sorted, i + 1, collect,
                IF ShouldRun(reg[name], m0)
                THEN [module |-> RunPass(reg[name], st.module),
                      calls |-> Append(asked, Call("run", name, st.module)),
                      stats |-> IF collect THEN Append(st.stats, Executed(name))
                                ELSE st.stats]
                ELSE [module |-> st.module, calls |-> asked,
                      stats |-> IF collect THEN Append(st.stats, Skipped(name))
                                ELSE st.stats],
                m0)

Execute_Upfront(reg, sorted, i, collect, st) ==
    ExecuteAsOf(reg, sorted, i, collect, st, st.module)

\* The loop over sorted_pipeline from its i-th entry.
RECURSIVE Execute(_, _, _, _, _)
Execute(reg, sorted, i, collect, st) ==
    IF i > Len(sorted) THEN st
    ELSE Execute(reg, sorted, i + 1, collect, ExecuteOne(reg, sorted[i], collect, st))

\* A run that executes the pipeline as requested before it looks at the
\* outcome of the sort.
RunAfterSort_Eager(reg, collect, stats, module, s) ==
    LET e == Execute(reg, IF s.kind = "Ok" THEN s.sorted ELSE pipeline, 1, collect,
                     [module |-> module, calls |-> <<>>,
                      stats |-> IF collect THEN <<>> ELSE stats])
    IN  <<Returned("run", "", s.kind, s.names, e.calls, module, e.module), e.stats>>

\* run after topological_sort gave outcome s: <<what it returns, last_run_stats>>.
RunAfterSort(reg, collect, stats, module, s) ==
    IF s.kind = "Ok"
    THEN LET e == Execute(reg, s.sorted, 1, collect,
                          [module |-> module, calls |-> <<>>,
                           stats |-> IF collect THEN <<>> ELSE stats])
         IN  <<Returned("run", "", "Ok", <<>>, e.calls, module, e.module), e.stats>>
    ELSE <<Returned("run", "", s.kind, s.names, <<>>, module, module), stats>>

Run(module) ==
    /\ \E s \in topological_sort(registered, pipeline) :
          LET r == RunAfterSort(registered, collect_stats, last_run_stats, module, s)
          IN  ret' = r[1] /\ last_run_stats' = r[2]
    /\ UNCHANGED <<registered, pipeline, groups, collect_stats>>

(***************************************************************************)
(* The configuration operations.                                           *)
(***************************************************************************)
\* HashMap::insert
Insert(map, key, value) ==
    [k \in DOMAIN map \cup {key} |-> IF k = key THEN value ELSE map[k]]

EnableStatistics ==
    /\ collect_stats' = TRUE
    /\ ret' = NoReturn
    /\ UNCHANGED <<registered, pipeline, groups, last_run_stats>>

RegisterPass(name, pass) ==
    /\ registered' = Insert(registered, name, pass)
    /\ ret' = NoReturn
    /\ UNCHANGED <<pipeline, groups, collect_stats, last_run_stats>>

AddToPipeline(name) ==
    /\ pipeline' = Append(pipeline, name)
    /\ ret' = NoReturn
    /\ UNCHANGED <<registered, groups, collect_stats, last_run_stats>>

CreateGroup(group) ==
    /\ groups' = Insert(groups, group, <<>>)
    /\ ret' = NoReturn
    /\ UNCHANGED <<registered, pipeline, collect_stats, last_run_stats>>

\* format!("分组 '{}'", group_name): the text "group '<name>'".
GroupLabel(group) == "group '" \o group \o "'"

AddPassToGroup(group, name) ==
    IF group \notin DOMAIN groups
    THEN /\ ret' = Returned("add_pass_to_group", group, "NotRegistered", <<GroupLabel(group)>>,
                            <<>>, 0, 0)
         /\ UNCHANGED <<registered, pipeline, groups, collect_stats, last_run_stats>>
    ELSE /\ groups' = [groups EXCEPT ![group] = Append(@, name)]
         /\ ret' = Returned("add_pass_to_group", group, "Ok", <<>>, <<>>, 0, 0)
         /\ UNCHANGED <<registered, pipeline, collect_stats, last_run_stats>>

\* An expansion that leaves out the members the pipeline already holds.
PushAll_Deduplicated(pipe, passes) ==
    pipe \o SelectSeq(passes, LAMBDA n : ~Contains(pipe, n))

\* The loop that pushes a clone of every member of the group.
PushAll(pipe, passes) == pipe \o passes

AddGroupToPipeline(group) ==
    IF group \in DOMAIN groups
    THEN /\ pipeline' = PushAll(pipeline, groups[group])
         /\ ret' = Returned("add_group_to_pipeline", group, "Ok", <<>>, <<>>, 0, 0)
         /\ UNCHANGED <<registered, groups, collect_stats, last_run_stats>>
    ELSE /\ ret' = Returned("add_group_to_pipeline", group, "NotRegistered",
                            <<GroupLabel(group)>>, <<>>, 0, 0)
         /\ UNCHANGED <<registered, pipeline, groups, collect_stats, last_run_stats>>

ClearPipeline ==
    /\ pipeline' = <<>>
    /\ ret' = NoReturn
    /\ UNCHANGED <<registered, groups, collect_stats, last_run_stats>>

\* No function is being rewritten.
NoFunction == func = <<>> /\ func_before = <<>> /\ applied = <<>> /\ changed = FALSE

\* No basic block has been built.
NoBlocks == instructions = <<>> /\ parent_bb = <<>>

\* No type has been created.
NoTypes == types = <<>>

\* PassManager::new
NewPassManager ==
    /\ registered = [n \in {} |-> [deps |-> <<>>, cond |-> "always"]]
    /\ pipeline = <<>>
    /\ groups = [g \in {} |-> <<>>]
    /\ collect_stats = FALSE
    /\ last_run_stats = <<>>
    /\ ret = NoReturn

Init == NewPassManager /\ NoFunction /\ NoBlocks /\ NoTypes

(***************************************************************************)
(* The environment.  The caller may call anything in any order; what keeps *)
(* the state space finite is a limit on the sizes it builds: the number of *)
(* dependency declarations in the registry, the length of the pipeline and *)
(* the size of a group.                                                    *)
(***************************************************************************)
RECURSIVE SumOver(_, _)
SumOver(S, f) ==
    IF S = {} THEN 0 ELSE LET x == CHOOSE y \in S : TRUE IN f[x] + SumOver(S \ {x}, f)

\* The number of dependency declarations of the passes of a registry
\* registered under the names S.
TotalDeps(reg, S) == SumOver(S, [n \in S |-> Len(reg[n].deps)])

Register(edges) ==
    \E name \in Names :
        LET others == TotalDeps(registered, DOMAIN registered \ {name})
        IN  \E pass \in {p \in PassImpls : others + Len(p.deps) <= edges} :
                RegisterPass(name, pass)

Extend(len) ==
    \E name \in Names : AddToPipeline(name) /\ Len(pipeline') <= len

ExtendByGroup(len) ==
    \E group \in GroupNames : AddGroupToPipeline(group) /\ Len(pipeline') <= len

ExtendGroup(len) ==
    \E group \in GroupNames, name \in Names :
        AddPassToGroup(group, name) /\ \A g \in DOMAIN groups' : Len(groups'[g]) <= len

\* The scheduler: registering, building a pipeline and running it.
Next ==
    \/ Register(MaxEdges) /\ UNCHANGED <<irvars, bbvars, tyvars>>
    \/ Extend(MaxPipeline) /\ UNCHANGED <<irvars, bbvars, tyvars>>
    \/ ClearPipeline /\ UNCHANGED <<irvars, bbvars, tyvars>>
    \/ (\E module \in Modules : Run(module)) /\ UNCHANGED <<irvars, bbvars, tyvars>>

Spec == Init /\ [][Next]_vars

\* The scheduler with statistics collection.
NextStats ==
    \/ EnableStatistics /\ UNCHANGED <<irvars, bbvars, tyvars>>
    \/ Register(StatsMaxEdges) /\ UNCHANGED <<irvars, bbvars, tyvars>>
    \/ Extend(StatsMaxPipeline) /\ UNCHANGED <<irvars, bbvars, tyvars>>
    \/ ClearPipeline /\ UNCHANGED <<irvars, bbvars, tyvars>>
    \/ (\E module \in Modules : Run(module)) /\ UNCHANGED <<irvars, bbvars, tyvars>>

SpecStats == Init /\ [][NextStats]_vars

\* Groups and the pipeline they are expanded into.
NextGroups ==
    \/ (\E group \in GroupNames : CreateGroup(group)) /\ UNCHANGED <<irvars, bbvars, tyvars>>
    \/ ExtendGroup(MaxGroup) /\ UNCHANGED <<irvars, bbvars, tyvars>>
    \/ ExtendByGroup(GroupsMaxPipeline) /\ UNCHANGED <<irvars, bbvars, tyvars>>
    \/ Extend(GroupsMaxPipeline) /\ UNCHANGED <<irvars, bbvars, tyvars>>
    \/ ClearPipeline /\ UNCHANGED <<irvars, bbvars, tyvars>>

SpecGroups == Init /\ [][NextGroups]_vars

(***************************************************************************)
(* What the claims speak of, read off the state a call to run leaves.      *)
(***************************************************************************)
RunReturned == ret.op = "run"

RunFailed == RunReturned /\ ret.kind \in {"NotRegistered", "CircularDependency", "MissingDependency"}

\* The positions in the call log of one kind of call.
CallsOf(fn) == {i \in 1..Len(ret.calls) : ret.calls[i].fn = fn}

RECURSIVE PassesAt(_, _)
PassesAt(i, fn) ==
    IF i > Len(ret.calls) THEN <<>>
    ELSE IF ret.calls[i].fn = fn THEN <<ret.calls[i].pass>> \o PassesAt(i + 1, fn)
    ELSE PassesAt(i + 1, fn)

\* The passes whose should_run was consulted, in the order of the calls.
Processed == PassesAt(1, "should_run")

\* The passes whose run was invoked, in the order of the calls.
Invoked == PassesAt(1, "run")

InPipeline == Range(pipeline)

AllDepsRegistered ==
    \A n \in DOMAIN registered : Range(registered[n].deps) \subseteq DOMAIN registered

PipelineRegistered == InPipeline \subseteq DOMAIN registered

\* n declares d as a dependency, both in the pipeline.
DependsOn(n, d) ==
    /\ n \in InPipeline /\ d \in InPipeline /\ n \in DOMAIN registered
    /\ d \in Range(registered[n].deps)

DepsIn(S) == {d \in InPipeline : \E n \in S : DependsOn(n, d)}

RECURSIVE Closure(_)
Closure(S) == IF DepsIn(S) \subseteq S THEN S ELSE Closure(S \cup DepsIn(S))

\* The pipeline passes n depends on, directly or not.
TransitiveDeps(n) == Closure(DepsIn({n}))

OnCycle(n) == n \in TransitiveDeps(n)

\* The dependency graph restricted to the pipeline has a cycle.
Cyclic == \E n \in InPipeline : OnCycle(n)

NoEdges == \A n, d \in InPipeline : ~DependsOn(n, d)

\* Where in the call log the should_run of a pass is (0: nowhere).
AskedAt(n) == {i \in CallsOf("should_run") : ret.calls[i].pass = n}
RanAt(n) == {i \in CallsOf("run") : ret.calls[i].pass = n}

(***************************************************************************)
(* C1: the resolved execution order.                                       *)
(***************************************************************************)
\* should_run of n is consulted exactly once, and run of n is invoked at most
\* once, after it.
ProcessedOnce(n) ==
    /\ Cardinality(AskedAt(n)) = 1
    /\ Cardinality(RanAt(n)) <= 1
    /\ \A i \in RanAt(n) : \E j \in AskedAt(n) : j < i

\* run of n is invoked exactly once when its should_run held, and not otherwise.
RunIffShouldRun(n) ==
    \A j \in AskedAt(n) :
        Cardinality(RanAt(n)) = IF ShouldRun(registered[n], ret.calls[j].module) THEN 1 ELSE 0

\* Every call into a pass comes after every call into a pipeline pass it depends on.
DependencyOrder ==
    \A n, d \in InPipeline :
        DependsOn(n, d) =>
            \A i \in AskedAt(n) \cup RanAt(n), j \in AskedAt(d) \cup RanAt(d) : j < i

AcyclicPipelineRan ==
    RunReturned /\ NoDuplicates(pipeline) /\ PipelineRegistered /\ ~Cyclic

\* C1 as stated: for every registry and every duplicate-free pipeline of
\* registered passes whose restricted dependency graph is acyclic, run returns
\* Ok, invokes each pipeline pass exactly once, and each after its
\* dependencies (here for the pipelines that are not empty, and counting a
\* pass whose should_run declined as invoked).
C1_AnyRegistry ==
    (AcyclicPipelineRan /\ pipeline # <<>>) =>
        /\ ret.kind = "Ok"
        /\ \A n \in InPipeline : ProcessedOnce(n)
        /\ DependencyOrder

\* C1 (amended): when moreover every dependency of every registered pass is
\* registered, run returns Ok, consults each pipeline pass exactly once, invokes
\* its run exactly once when its should_run holds (and not otherwise), and calls
\* into a pass only after the calls into its dependencies in the pipeline.
C1_ExecutionOrder ==
    (AcyclicPipelineRan /\ AllDepsRegistered) =>
        /\ ret.kind = "Ok"
        /\ \A n \in InPipeline : ProcessedOnce(n) /\ RunIffShouldRun(n)
        /\ DependencyOrder

\* The pipeline [C, B, A] with B depending on A and C on B has run as A, B, C.
C1_Witness ==
    /\ RunReturned /\ ret.kind = "Ok"
    /\ pipeline = <<"C", "B", "A">>
    /\ registered["B"].deps = <<"A">>
    /\ registered["C"].deps = <<"B">>
    /\ Invoked = <<"A", "B", "C">>

(***************************************************************************)
(* C2: the cycle that CircularDependency reports.                          *)
(***************************************************************************)
\* C2: whenever the dependency graph restricted to the pipeline contains a
\* cycle, run returns CircularDependency and the returned list names passes
\* that form a cycle.  Stated for the runs that get as far as the sort (every
\* dependency registered, every pipeline entry registered) on a pipeline
\* without duplicates.
C2_CycleReported ==
    (RunReturned /\ AllDepsRegistered /\ PipelineRegistered /\ NoDuplicates(pipeline)
        /\ Cyclic) =>
        /\ ret.kind = "CircularDependency"
        /\ ret.names # <<>>
        /\ \A i \in 1..Len(ret.names) : ret.names[i] \in InPipeline /\ OnCycle(ret.names[i])

(***************************************************************************)
(* C3: a dependency that is not registered.                                *)
(***************************************************************************)
\* C3: if any registered pass declares a dependency that is not registered,
\* run returns MissingDependency{pass, dependency} with pass a registered
\* pass and dependency an unregistered name it declares, in the pipeline or not.
C3_MissingDependency ==
    (RunReturned /\ ~AllDepsRegistered) =>
        /\ ret.kind = "MissingDependency"
        /\ Len(ret.names) = 2
        /\ ret.names[1] \in DOMAIN registered
        /\ ret.names[2] \in Range(registered[ret.names[1]].deps)
        /\ ret.names[2] \notin DOMAIN registered

\* run has reported the missing dependency of a pass that is not in the
\* (non-empty, fully registered) pipeline.
C3_Witness ==
    /\ RunReturned /\ ret.kind = "MissingDependency"
    /\ pipeline # <<>> /\ PipelineRegistered
    /\ ret.names[1] \notin InPipeline

(***************************************************************************)
(* C4: a PassError leaves the passes and the module alone.                 *)
(***************************************************************************)
\* C4: whenever run returns a PassError, it has called no should_run and no
\* run, and the module is as it was before the call.
C4_ErrorBeforeExecution ==
    RunFailed => ret.calls = <<>> /\ ret.module_after = ret.module_before

\* run has returned CircularDependency on a pipeline whose first pass would
\* have run had the pipeline been executed as requested.
C4_Witness ==
    /\ RunFailed /\ ret.kind = "CircularDependency"
    /\ ShouldRun(registered[pipeline[1]], ret.module_before)

(***************************************************************************)
(* C6: the order among passes with no dependency between them.             *)
(***************************************************************************)
\* C6: when no member of the pipeline depends on another member (the
\* members being registered passes, in a registry whose dependencies are all
\* registered), run returns Ok and has processed the passes exactly in
\* pipeline insertion order; and a run repeated on the same configuration,
\* on whatever module, processes the passes in the same order.
C6_StableOrder ==
    /\ []((RunReturned /\ AllDepsRegistered /\ PipelineRegistered /\ NoEdges) =>
            ret.kind = "Ok" /\ Processed = pipeline)
    /\ [][(RunReturned /\ ret.kind = "Ok" /\ ret'.op = "run" /\ ret'.kind = "Ok")
            => PassesAt(1, "should_run")' = PassesAt(1, "should_run")]_vars

\* Three unrelated passes have been processed in the order they were added,
\* which is not the order of their names.
C6_Witness ==
    /\ RunReturned /\ ret.kind = "Ok" /\ NoEdges
    /\ pipeline = <<"B", "C", "A">>
    /\ Processed = <<"B", "C", "A">>

(***************************************************************************)
(* C7: passes outside the requested pipeline.                              *)
(***************************************************************************)
\* Every dependency declared by a pipeline pass is outside the pipeline.
OnlyAbsentDeps ==
    \A n \in InPipeline : Range(registered[n].deps) \cap InPipeline = {}

\* The registry with the dependencies that are not in the pipeline erased.
WithoutAbsentDeps ==
    [n \in DOMAIN registered |->
        [registered[n] EXCEPT !.deps = SelectSeq(@, LAMBDA d : d \in InPipeline)]]

\* C7: run calls should_run and run only of passes in the pipeline; and a
\* registered dependency that is not in the pipeline neither fails the run
\* nor constrains the order: when all dependencies of the pipeline passes are
\* such, run returns Ok and processes the pipeline in insertion order, and in
\* general run returns what it returns, and processes the passes in the order
\* it does, with those dependencies erased from the registry.
C7_OnlyPipelinePasses ==
    /\ RunReturned => \A i \in 1..Len(ret.calls) : ret.calls[i].pass \in InPipeline
    /\ (RunReturned /\ AllDepsRegistered /\ PipelineRegistered /\ OnlyAbsentDeps) =>
            ret.kind = "Ok" /\ Processed = pipeline
    /\ (RunReturned /\ AllDepsRegistered /\ PipelineRegistered) =>
            \E s \in topological_sort(WithoutAbsentDeps, pipeline) :
                /\ ret.kind = s.kind /\ ret.names = s.names
                /\ ret.kind = "Ok" => Processed = s.sorted

\* A pipeline of two passes has run in insertion order although its first
\* pass depends on a registered pass that is not in the pipeline.
C7_Witness ==
    /\ RunReturned /\ ret.kind = "Ok"
    /\ Len(pipeline) = 2 /\ Invoked = pipeline
    /\ \E d \in DOMAIN registered \ InPipeline : d \in Range(registered[pipeline[1]].deps)

(***************************************************************************)
(* C9: a pipeline entry that is not registered.                            *)
(***************************************************************************)
\* C9: if the pipeline contains an identifier that is not registered, and
\* every dependency of every registered pass is registered, run returns
\* NotRegistered with the first such identifier in pipeline order.
C9_NotRegistered ==
    (RunReturned /\ AllDepsRegistered /\ ~PipelineRegistered) =>
        /\ ret.kind = "NotRegistered"
        /\ \E i \in 1..Len(pipeline) :
              /\ ret.names = <<pipeline[i]>>
              /\ pipeline[i] \notin DOMAIN registered
              /\ \A k \in 1..(i - 1) : pipeline[k] \in DOMAIN registered

\* run has reported the first of two different unregistered pipeline
\* entries, which comes after a registered one.
C9_Witness ==
    /\ RunReturned /\ ret.kind = "NotRegistered"
    /\ Len(pipeline) = 3
    /\ pipeline[1] \in DOMAIN registered
    /\ pipeline[2] \notin DOMAIN registered
    /\ pipeline[3] \notin DOMAIN registered
    /\ pipeline[2] # pipeline[3]
    /\ ret.names = <<pipeline[2]>>

(***************************************************************************)
(* C5: should_run and the skip record.                                     *)
(***************************************************************************)
\* The module as a call into a pass leaves it.
ModuleAfter(c) == IF c.fn = "run" THEN RunPass(registered[c.pass], c.module) ELSE c.module

\* The place in the call log of the k-th should_run.
AskIndex(k) ==
    CHOOSE i \in CallsOf("should_run") :
        Cardinality({j \in CallsOf("should_run") : j <= i}) = k

\* C5: a run that returns Ok consults should_run of every pass of the order,
\* each on the module as the earlier passes have left it; run of a pass is
\* invoked right after its should_run and only when that held; when it did not,
\* the next call is the should_run of the next pass, and with statistics
\* enabled the record stored for the pass has skipped = true and a skip
\* reason (skipped = false and no reason when it ran).
C5_ConditionalExecution ==
    (RunReturned /\ ret.kind = "Ok") =>
        /\ Len(Processed) = Len(pipeline)
        /\ \A i \in 1..Len(ret.calls) :
              LET c == ret.calls[i]
                  holds == ShouldRun(registered[c.pass], c.module)
              IN  /\ c.module = IF i = 1 THEN ret.module_before
                                ELSE ModuleAfter(ret.calls[i - 1])
                  /\ c.fn = "run" =>
                        /\ i > 1 /\ holds
                        /\ ret.calls[i - 1] = Call("should_run", c.pass, c.module)
                  /\ (c.fn = "should_run" /\ holds) =>
                        i < Len(ret.calls) /\ ret.calls[i + 1] = Call("run", c.pass, c.module)
                  /\ (c.fn = "should_run" /\ ~holds /\ i < Len(ret.calls)) =>
                        ret.calls[i + 1].fn = "should_run"
        /\ ret.module_after = IF ret.calls = <<>> THEN ret.module_before
                              ELSE ModuleAfter(ret.calls[Len(ret.calls)])
        /\ collect_stats =>
              /\ Len(last_run_stats) = Len(Processed)
              /\ \A k \in 1..Len(Processed) :
                    LET c == ret.calls[AskIndex(k)]
                        holds == ShouldRun(registered[c.pass], c.module)
                    IN  /\ last_run_stats[k].name = c.pass
                        /\ last_run_stats[k].skipped = ~holds
                        /\ (last_run_stats[k].skip_reason # "None") = ~holds

\* With statistics enabled, a run on a clean module has run its first pass
\* and skipped the second, which would have run on the module as it was
\* handed in.
C5_Witness ==
    /\ RunReturned /\ ret.kind = "Ok" /\ collect_stats
    /\ Len(pipeline) = 2
    /\ Invoked = <<Processed[1]>>
    /\ last_run_stats[2].skipped
    /\ ShouldRun(registered[Processed[2]], ret.module_before)

(***************************************************************************)
(* C8: the statistics of the last run.                                     *)
(***************************************************************************)
RECURSIVE NamesOf(_)
NamesOf(stats) == IF stats = <<>> THEN <<>> ELSE <<Head(stats).name>> \o NamesOf(Tail(stats))

\* C8: after each call to run, with statistics enabled last_run_stats holds
\* exactly one record per pass executed or skipped in that call, in execution
\* order, and nothing from earlier calls; with statistics not enabled it
\* holds no record.
C8_StatsOfLastRun ==
    RunReturned =>
        IF collect_stats THEN NamesOf(last_run_stats) = Processed
        ELSE last_run_stats = <<>>

(***************************************************************************)
(* C10: groups are expanded when they are added to the pipeline.           *)
(***************************************************************************)
\* C10: add_group_to_pipeline on an existing group returns Ok and appends to
\* the pipeline exactly the members the group has at the call, in group
\* order, leaving the groups alone; add_pass_to_group never changes the
\* pipeline; and either of them, on a group name that was never created,
\* returns NotRegistered and leaves the pipeline and all groups unchanged.
C10_GroupExpansion ==
    [][/\ ret'.op = "add_group_to_pipeline" =>
            IF ret'.group \in DOMAIN groups
            THEN /\ ret'.kind = "Ok"
                 /\ pipeline' = pipeline \o groups[ret'.group]
                 /\ groups' = groups
            ELSE /\ ret'.kind = "NotRegistered"
                 /\ pipeline' = pipeline /\ groups' = groups
       /\ ret'.op = "add_pass_to_group" =>
            /\ pipeline' = pipeline
            /\ IF ret'.group \in DOMAIN groups
               THEN ret'.kind = "Ok"
               ELSE ret'.kind = "NotRegistered" /\ groups' = groups
      ]_vars

\* A group of two has just been expanded behind a pass that was already in
\* the pipeline, one of the two being that very pass.
C10_Witness ==
    /\ ret.op = "add_group_to_pipeline" /\ ret.kind = "Ok"
    /\ groups[ret.group] = <<"A", "B">>
    /\ pipeline = <<"A", "A", "B">>

(***************************************************************************)
(* Part II: the IR and the four optimization passes.                       *)
(*                                                                         *)
(* A text (String) is a sequence of one-character strings, so that parsing *)
(* and formatting are computed and not assumed.  An integer of the program *)
(* is kept as a sign and a magnitude, the magnitude as its digits in base  *)
(* 10000 with the least significant digit first and no leading zero (<<>>  *)
(* is 0): the values of i64 and u64 do not fit the integers of the model   *)
(* checker.                                                                *)
(***************************************************************************)
\* F(x), with x evaluated once and before F is applied: `let v = x; F(v)`.
\* (A definition of LET and an argument of an operator are evaluated where
\* they are used, as often as they are used.)
With(x, F(_)) == CHOOSE r \in {F(v) : v \in {x}} : TRUE

DigitChars == <<"0", "1", "2", "3", "4", "5", "6", "7", "8", "9">>

IsDigit(c) == \E d \in 1..10 : DigitChars[d] = c

DigitValue(c) == (CHOOSE d \in 1..10 : DigitChars[d] = c) - 1

StripLeadingZeros(chars) ==
    LET rest == {i \in 1..Len(chars) : chars[i] # "0"}
    IN  IF rest = {} THEN <<>>
        ELSE SubSeq(chars, CHOOSE i \in rest : \A j \in rest : i <= j, Len(chars))

\* The base of the magnitudes: four decimal digits to a digit.
Base == 10 * 10 * 10 * 10

\* Drops the leading zeros of a magnitude (they are at the end of the sequence).
NatNorm(a) ==
    LET top == {i \in 1..Len(a) : a[i] # 0}
    IN  IF top = {} THEN <<>>
        ELSE SubSeq(a, 1, CHOOSE i \in top : \A j \in top : j <= i)

NatDigit(a, i) == IF i <= Len(a) THEN a[i] ELSE 0

\* -1, 0 or 1 as a < b, a = b or a > b.
NatCmp(a, b) ==
    IF Len(a) < Len(b) THEN 0 - 1
    ELSE IF Len(a) > Len(b) THEN 1
    ELSE LET differ == {i \in 1..Len(a) : a[i] # b[i]}
         IN  IF differ = {} THEN 0
             ELSE LET i == CHOOSE k \in differ : \A j \in differ : j <= k
                  IN  IF a[i] < b[i] THEN 0 - 1 ELSE 1

NatLe(a, b) == NatCmp(a, b) <= 0

RECURSIVE NatAddFrom(_, _, _, _)
NatAddFrom(a, b, i, carry) ==
    IF i > Len(a) /\ i > Len(b)
    THEN IF carry = 0 THEN <<>> ELSE <<carry>>
    ELSE LET t == NatDigit(a, i) + NatDigit(b, i) + carry
         IN  <<t % Base>> \o NatAddFrom(a, b, i + 1, t \div Base)

NatAdd(a, b) == With(a, LAMBDA x : With(b, LAMBDA y : NatAddFrom(x, y, 1, 0)))

\* a - b for a >= b.
RECURSIVE NatSubFrom(_, _, _, _)
NatSubFrom(a, b, i, borrow) ==
    IF i > Len(a) THEN <<>>
    ELSE LET t == a[i] - NatDigit(b, i) - borrow
         IN  IF t < 0 THEN <<t + Base>> \o NatSubFrom(a, b, i + 1, 1)
             ELSE <<t>> \o NatSubFrom(a, b, i + 1, 0)

NatSub(a, b) == With(a, LAMBDA x : With(b, LAMBDA y : NatNorm(NatSubFrom(x, y, 1, 0))))

\* a * d for a number d of the model checker below Base.
RECURSIVE NatScaleFrom(_, _, _, _)
NatScaleFrom(a, d, i, carry) ==
    IF i > Len(a)
    THEN IF carry = 0 THEN <<>> ELSE <<carry>>
    ELSE LET t == a[i] * d + carry
         IN  <<t % Base>> \o NatScaleFrom(a, d, i + 1, t \div Base)

NatScale(a, d) == With(a, LAMBDA x : With(d, LAMBDA y : NatNorm(NatScaleFrom(x, y, 1, 0))))

\* a * Base
NatShift(a) == IF a = <<>> THEN <<>> ELSE <<0>> \o a

RECURSIVE NatMulFrom(_, _, _)
NatMulFrom(a, b, i) ==
    IF i > Len(b) THEN <<>>
    ELSE NatAdd(NatScale(a, b[i]), NatShift(NatMulFrom(a, b, i + 1)))

NatMul(a, b) == With(a, LAMBDA x : With(b, LAMBDA y : NatNorm(NatMulFrom(x, y, 1))))

\* The greatest q in lo..hi with b * q <= r, for b * lo <= r.
RECURSIVE NatCount(_, _, _, _)
NatCount(r, b, lo, hi) ==
    IF lo = hi THEN lo
    ELSE With((lo + hi + 1) \div 2, LAMBDA mid :
             IF NatLe(NatScale(b, mid), r) THEN NatCount(r, b, mid, hi)
             ELSE NatCount(r, b, lo, mid - 1))

\* Long division: the quotient and remainder of a by b (not 0), from the most
\* significant digit a[i] down, r being the remainder so far.
RECURSIVE NatDivFrom(_, _, _, _)
NatDivFrom(a, b, i, r) ==
    IF i = 0 THEN [quot |-> <<>>, rem |-> r]
    ELSE With(NatNorm(<<a[i]>> \o r), LAMBDA cur :
         With(NatCount(cur, b, 0, Base - 1), LAMBDA q :
         With(NatDivFrom(a, b, i - 1, NatSub(cur, NatScale(b, q))), LAMBDA rest :
             [quot |-> Append(rest.quot, q), rem |-> rest.rem])))

NatDivMod(a, b) ==
    With(a, LAMBDA x : With(b, LAMBDA y :
    With(NatDivFrom(x, y, Len(x), <<>>), LAMBDA r :
        [quot |-> NatNorm(r.quot), rem |-> r.rem])))

\* The magnitude of a number of the model checker, and back.
RECURSIVE NatOf(_)
NatOf(n) == IF n = 0 THEN <<>> ELSE <<n % Base>> \o NatOf(n \div Base)

RECURSIVE NatValue(_)
NatValue(a) == IF a = <<>> THEN 0 ELSE a[1] + Base * NatValue(Tail(a))

\* The magnitude written by a sequence of digit characters: the k-th digit in
\* base 10000 is written by the k-th group of four characters from the right.
MagOfDigits(chars) ==
    LET n == Len(chars)
        At(j) == IF j >= 1 THEN DigitValue(chars[j]) ELSE 0
    IN  NatNorm([k \in 1..((n + 3) \div 4) |->
                    At(n - 4 * k + 4) + 10 * At(n - 4 * k + 3)
                        + 100 * At(n - 4 * k + 2) + 1000 * At(n - 4 * k + 1)])

\* The decimal digits of a magnitude (not 0), the most significant first.
DigitsOfMag(a) ==
    LET n == Len(a)
        Digit(j) == (a[n - ((j - 1) \div 4)] \div (10 ^ (3 - ((j - 1) % 4)))) % 10
    IN  StripLeadingZeros([j \in 1..(4 * n) |-> DigitChars[Digit(j) + 1]])

(***************************************************************************)
(* Option, i64 and u64 as the constant folder uses them.                   *)
(***************************************************************************)
None == [some |-> FALSE]
Some(v) == [some |-> TRUE, val |-> v]

\* An integer: canonical, zero is not negative.
IntOf(neg, mag) == [neg |-> neg /\ mag # <<>>, mag |-> mag]

\* 2^63 and 2^64
Pow63 == MagOfDigits(<<"9", "2", "2", "3", "3", "7", "2", "0", "3", "6",
                       "8", "5", "4", "7", "7", "5", "8", "0", "8">>)
Pow64 == NatScale(Pow63, 2)

\* i64::MIN <= v <= i64::MAX
InI64(v) == IF v.neg THEN NatLe(v.mag, Pow63) ELSE NatCmp(v.mag, Pow63) < 0

\* (A checked_* operation that does not check.)
Checked_Unchecked(x) == Some(x)

\* The result of a checked_* operation whose exact result is x.
Checked(x) == With(x, LAMBDA v : IF InI64(v) THEN Some(v) ELSE None)

\* str::parse::<i64>: an optional sign, then at least one digit and nothing
\* but digits; a value outside i64 is an error.
ParseI64(text) ==
    LET signed == text # <<>> /\ text[1] \in {"+", "-"}
        digits == IF signed THEN Tail(text) ELSE text
    IN  IF digits = <<>> \/ \E i \in 1..Len(digits) : ~IsDigit(digits[i]) THEN None
        ELSE With(IntOf(signed /\ text[1] = "-", MagOfDigits(digits)),
                  LAMBDA v : IF InI64(v) THEN Some(v) ELSE None)

\* i64::to_string
to_string(v) ==
    IF v.mag = <<>> THEN <<"0">>
    ELSE (IF v.neg THEN <<"-">> ELSE <<>>) \o DigitsOfMag(v.mag)

\* The exact sum, difference and product, and the quotient and remainder of
\* the division that truncates toward zero.
IntAdd(x, y) ==
    IF x.neg = y.neg THEN IntOf(x.neg, NatAdd(x.mag, y.mag))
    ELSE IF NatLe(y.mag, x.mag) THEN IntOf(x.neg, NatSub(x.mag, y.mag))
    ELSE IntOf(y.neg, NatSub(y.mag, x.mag))

IntNeg(x) == IntOf(~x.neg, x.mag)

IntSub(x, y) == IntAdd(x, IntNeg(y))

IntMul(x, y) == IntOf(x.neg # y.neg, NatMul(x.mag, y.mag))

IntDiv(x, y) == IntOf(x.neg # y.neg, NatDivMod(x.mag, y.mag).quot)

IntRem(x, y) == IntOf(x.neg, NatDivMod(x.mag, y.mag).rem)

\* `x as u64` and `u as i64`: the two's complement reading.
AsU64(x) == IF x.neg THEN NatSub(Pow64, x.mag) ELSE x.mag

AsI64(x) ==
    With(x, LAMBDA u : IF NatLe(Pow63, u) THEN IntOf(TRUE, NatSub(Pow64, u)) ELSE IntOf(FALSE, u))

\* 2^k
RECURSIVE Pow2(_)
Pow2(k) == IF k <= 13 THEN NatOf(2 ^ k) ELSE NatScale(Pow2(k - 13), 2 ^ 13)

\* The n low bytes of a magnitude, the least significant first, and back.
RECURSIVE ToBytes(_, _)
ToBytes(a, n) ==
    IF n = 0 THEN <<>>
    ELSE With(NatDivMod(a, NatOf(256)), LAMBDA r :
             <<NatValue(r.rem)>> \o ToBytes(r.quot, n - 1))

RECURSIVE FromBytes(_)
FromBytes(bytes) ==
    IF bytes = <<>> THEN <<>>
    ELSE NatAdd(NatOf(bytes[1]), NatScale(FromBytes(Tail(bytes)), 256))

BitAnd(a, b) == a * b
BitOr(a, b) == a + b - a * b
BitXor(a, b) == (a + b) % 2

\* Op bit by bit on the n low bits of two numbers.
RECURSIVE BitByBit(_, _, _, _)
BitByBit(Op(_, _), a, b, n) ==
    IF n = 0 THEN 0
    ELSE Op(a % 2, b % 2) + 2 * BitByBit(Op, a \div 2, b \div 2, n - 1)

\* x & y, x | y, x ^ y on the 64 bits of two i64.
Bitwise(Op(_, _), lhs, rhs) ==
    With(ToBytes(AsU64(lhs), 8), LAMBDA a :
    With(ToBytes(AsU64(rhs), 8), LAMBDA b :
        AsI64(FromBytes([i \in 1..8 |-> BitByBit(Op, a[i], b[i], 8)]))))

\* x << k on the 64 bits of an i64 (the bits shifted out are lost), x >> k
\* of a u64 and x >> k of an i64 (which keeps the sign), for k in 0..63.
ShiftLeft(x, k) == AsI64(NatDivMod(NatMul(AsU64(x), Pow2(k)), Pow64).rem)

LogicalShiftRight(x, k) == AsI64(NatDivMod(AsU64(x), Pow2(k)).quot)

ArithmeticShiftRight(x, k) ==
    With(Pow2(k), LAMBDA p :
        IF x.neg THEN IntOf(TRUE, NatDivMod(NatAdd(x.mag, NatSub(p, <<1>>)), p).quot)
        ELSE IntOf(FALSE, NatDivMod(x.mag, p).quot))

(***************************************************************************)
(* The IR as the passes read it.  An operand is Value::Constant(text) or   *)
(* Value::Reference(name); an instruction has an opcode (its text), an     *)
(* optional result (a Value: name and type), its operands and attributes;  *)
(* a basic block has a name and its instructions, a function its blocks.   *)
(***************************************************************************)
Constant(text) == [kind |-> "Constant", text |-> text]
Reference(text) == [kind |-> "Reference", text |-> text]

\* Value::new
Value(ty, text) == [ty |-> ty, name |-> text]

\* Instruction::new
Instruction(opcode, result, operands, attributes) ==
    [opcode |-> opcode, result |-> result, operands |-> operands, attributes |-> attributes]

\* BasicBlock::new followed by add_instruction for every instruction
BasicBlock(text, instrs) == [name |-> text, instructions |-> instrs]

has_result(instr) == instr.result.some

\* Instruction::get_name: the name of the result, if there is a result.
get_name(instr) == IF instr.result.some THEN Some(instr.result.val.name) ELSE None

\* Instruction::set_name: nothing happens without a result.
set_name(instr, text) ==
    IF instr.result.some
    THEN [instr EXCEPT !.result = Some(Value(instr.result.val.ty, text))]
    ELSE instr

has_attribute(instr, attr) == attr \in instr.attributes

\* Instruction::replace_with_constant: nothing happens without a result.
replace_with_constant(instr, constant_name) ==
    IF instr.result.some
    THEN [instr EXCEPT !.result = Some(Value(instr.result.val.ty, constant_name)),
                       !.opcode = "mov",
                       !.operands = <<>>]
    ELSE instr

(***************************************************************************)
(* ConstantFoldingPass                                                     *)
(***************************************************************************)
\* The shift amount of a shift the folder accepts (0..63), as a number.
ShiftAmount(rhs) == NatValue(rhs.mag)

ValidShift(rhs) == ~rhs.neg /\ NatCmp(rhs.mag, NatOf(64)) < 0

\* (A test for zero that never finds it.)
IsZero_Never(x) == FALSE

\* `rhs_int == 0`
IsZero(x) == x.mag = <<>>

\* The match on the opcode: the Option that the arm yields.
ComputeBinary(opcode, lhs, rhs) ==
    CASE opcode = "add" -> Checked(IntAdd(lhs, rhs))
      [] opcode = "sub" -> Checked(IntSub(lhs, rhs))
      [] opcode = "mul" -> Checked(IntMul(lhs, rhs))
      [] opcode = "sdiv" -> IF IsZero(rhs) THEN None ELSE Checked(IntDiv(lhs, rhs))
      [] opcode = "udiv" ->
            IF IsZero(rhs) THEN None
            ELSE Some(AsI64(NatDivMod(AsU64(lhs), AsU64(rhs)).quot))
      [] opcode = "srem" ->
            IF IsZero(rhs) \/ ~InI64(IntDiv(lhs, rhs)) THEN None
            ELSE Some(IntRem(lhs, rhs))
      [] opcode = "urem" ->
            IF IsZero(rhs) THEN None
            ELSE Some(AsI64(NatDivMod(AsU64(lhs), AsU64(rhs)).rem))
      [] opcode = "shl" ->
            IF ~ValidShift(rhs) THEN None
            ELSE Some(ShiftLeft(lhs, ShiftAmount(rhs)))
      [] opcode = "lshr" ->
            IF ~ValidShift(rhs) THEN None
            ELSE Some(LogicalShiftRight(lhs, ShiftAmount(rhs)))
      [] opcode = "ashr" ->
            IF ~ValidShift(rhs) THEN None
            ELSE Some(ArithmeticShiftRight(lhs, ShiftAmount(rhs)))
      [] opcode = "and" -> Some(Bitwise(BitAnd, lhs, rhs))
      [] opcode = "or" -> Some(Bitwise(BitOr, lhs, rhs))
      [] opcode = "xor" -> Some(Bitwise(BitXor, lhs, rhs))
      [] OTHER -> None

\* ConstantFoldingPass::compute_constant_expression on the texts of the two
\* constants: the text of the result, if there is one.
compute_constant_expression(opcode, lhs, rhs) ==
    With(ParseI64(lhs), LAMBDA lhs_int :
    With(ParseI64(rhs), LAMBDA rhs_int :
        IF ~lhs_int.some \/ ~rhs_int.some THEN None
        ELSE With(ComputeBinary(opcode, lhs_int.val, rhs_int.val), LAMBDA result :
                 IF result.some THEN Some(to_string(result.val)) ELSE None)))

StripTrailingZeros(chars) == Reverse(StripLeadingZeros(Reverse(chars)))

\* (-f).to_string() for the f that str::parse::<f64> reads from a text, if it
\* reads one.  The texts covered are an optional sign followed by inf,
\* infinity, nan (in lower case) or by digits with at most one point and at
\* most 15 significant digits, which f64 holds and prints back digit for
\* digit; exponents and longer numerals are not used by the environment.
NegatedF64(text) ==
    LET signed == text # <<>> /\ text[1] \in {"+", "-"}
        minus == IF signed /\ text[1] = "-" THEN <<>> ELSE <<"-">>
        digits == IF signed THEN Tail(text) ELSE text
        points == {i \in 1..Len(digits) : digits[i] = "."}
        point == IF points = {} THEN Len(digits) + 1 ELSE CHOOSE i \in points : TRUE
        whole == StripLeadingZeros(SubSeq(digits, 1, point - 1))
        fraction == StripTrailingZeros(SubSeq(digits, point + 1, Len(digits)))
    IN  IF digits \in {<<"i", "n", "f">>, <<"i", "n", "f", "i", "n", "i", "t", "y">>}
        THEN Some(minus \o <<"i", "n", "f">>)
        ELSE IF digits = <<"n", "a", "n">> THEN Some(<<"N", "a", "N">>)
        ELSE IF \/ Cardinality(points) > 1
                \/ Len(digits) - Cardinality(points) = 0
                \/ \E i \in 1..Len(digits) : ~IsDigit(digits[i]) /\ digits[i] # "."
        THEN None
        ELSE Some(minus \o (IF whole = <<>> THEN <<"0">> ELSE whole)
                        \o (IF fraction = <<>> THEN <<>> ELSE <<".">> \o fraction))

\* ConstantFoldingPass::compute_unary_expression
compute_unary_expression(opcode, val) ==
    IF opcode = "fneg" THEN NegatedF64(val) ELSE None

FoldableBinary == {"add", "sub", "mul", "udiv", "sdiv", "urem", "srem",
                   "shl", "lshr", "ashr", "and", "or", "xor"}

\* (A folder that does not look at the kind of the two operands.)
try_fold_instruction_AnyKind(instr) ==
    IF instr.opcode \in FoldableBinary /\ Len(instr.operands) = 2
    THEN With(compute_constant_expression(instr.opcode, instr.operands[1].text,
                                          instr.operands[2].text),
              LAMBDA result :
                  IF result.some
                  THEN [instr |-> replace_with_constant(instr, result.val), folded |-> TRUE]
                  ELSE [instr |-> instr, folded |-> FALSE])
    ELSE [instr |-> instr, folded |-> FALSE]

\* ConstantFoldingPass::try_fold_instruction: the instruction as it is left
\* and the value returned.
try_fold_instruction(instr) ==
    LET unfolded == [instr |-> instr, folded |-> FALSE]
        ops == instr.operands
    IN  IF instr.opcode \in FoldableBinary
        THEN IF Len(ops) # 2 THEN unfolded
             ELSE IF ops[1].kind = "Constant" /\ ops[2].kind = "Constant"
             THEN With(compute_constant_expression(instr.opcode, ops[1].text, ops[2].text),
                       LAMBDA result :
                           IF result.some
                           THEN [instr |-> replace_with_constant(instr, result.val),
                                 folded |-> TRUE]
                           ELSE unfolded)
             ELSE unfolded
        ELSE IF instr.opcode = "fneg"
        THEN IF Len(ops) # 1 THEN unfolded
             ELSE IF ops[1].kind = "Constant"
             THEN With(compute_unary_expression(instr.opcode, ops[1].text),
                       LAMBDA result :
                           IF result.some
                           THEN [instr |-> replace_with_constant(instr, result.val),
                                 folded |-> TRUE]
                           ELSE unfolded)
             ELSE unfolded
        ELSE unfolded

\* One round of the `while changed` loop of ConstantFoldingPass::
\* process_function: every instruction of every block is tried once; the
\* function as it is left and the value of `changed` at the end of the round.
FoldScan(f) ==
    With([b \in 1..Len(f) |->
             [i \in 1..Len(f[b].instructions) |-> try_fold_instruction(f[b].instructions[i])]],
         LAMBDA tried :
             [func |-> [b \in 1..Len(f) |->
                           [f[b] EXCEPT !.instructions =
                               [i \in 1..Len(f[b].instructions) |-> tried[b][i].instr]]],
              changed |-> \E b \in 1..Len(f) : \E i \in 1..Len(tried[b]) : tried[b][i].folded])

(***************************************************************************)
(* DeadCodeEliminationPass.  An instruction object (the pointer the pass   *)
(* keeps in its live set) is identified by its place <<block, index>> in   *)
(* the function the pass was started on.                                   *)
(***************************************************************************)
InstrAt(f, at) == f[at[1]].instructions[at[2]]

\* The places of a function in the order the passes visit them: block
\* order, then the order in the block.
RECURSIVE PlacesFrom(_, _)
PlacesFrom(f, b) ==
    IF b > Len(f) THEN <<>>
    ELSE [i \in 1..Len(f[b].instructions) |-> <<b, i>>] \o PlacesFrom(f, b + 1)

Places(f) == PlacesFrom(f, 1)

\* DeadCodeEliminationPass::has_side_effects (CommonSubexpressionEliminationPass
\* has the same function)
has_side_effects(instr) ==
    IF instr.opcode \in {"store", "call", "ret", "br", "switch"} THEN TRUE
    ELSE IF instr.opcode = "load" THEN has_attribute(instr, "volatile")
    ELSE FALSE

\* DeadCodeEliminationPass::find_instruction_by_name: the first instruction
\* whose result has that name.
find_instruction_by_name(f, text) ==
    LET places == Places(f)
        named == {k \in 1..Len(places) : get_name(InstrAt(f, places[k])) = Some(text)}
    IN  IF named = {} THEN None
        ELSE Some(places[CHOOSE k \in named : \A j \in named : k <= j])

\* (A marking that does not follow the operands.)
MarkOperands_None(f, operands, i, st) == st

\* The loop over the operands of a live instruction: st is <<live set, work list>>.
RECURSIVE MarkOperands(_, _, _, _)
MarkOperands(f, operands, i, st) ==
    IF i > Len(operands) THEN st
    ELSE LET def_instr == IF operands[i].kind = "Reference"
                          THEN find_instruction_by_name(f, operands[i].text)
                          ELSE None
         IN  IF def_instr.some /\ def_instr.val \notin st[1]
             THEN MarkOperands(f, operands, i + 1,
                               <<st[1] \cup {def_instr.val}, Append(st[2], def_instr.val)>>)
             ELSE MarkOperands(f, operands, i + 1, st)

\* `while let Some(instr) = work_list.pop()`
RECURSIVE MarkLoop(_, _)
MarkLoop(f, st) ==
    IF st[2] = <<>> THEN st[1]
    ELSE LET instr == st[2][Len(st[2])]
             rest == SubSeq(st[2], 1, Len(st[2]) - 1)
         IN  MarkLoop(f, MarkOperands(f, InstrAt(f, instr).operands, 1, <<st[1], rest>>))

\* The instructions the first loop marks live and puts on the work list.
LiveSeeds(f) == SelectSeq(Places(f), LAMBDA at : has_side_effects(InstrAt(f, at)))

\* DeadCodeEliminationPass::mark_live_instructions
mark_live_instructions(f) == MarkLoop(f, <<Range(LiveSeeds(f)), LiveSeeds(f)>>)

\* The instructions of block b that the removal loop leaves, in their order.
RECURSIVE Survivors(_, _, _, _)
Survivors(f, b, i, live_instructions) ==
    IF i > Len(f[b].instructions) THEN <<>>
    ELSE (IF <<b, i>> \notin live_instructions THEN <<>> ELSE <<f[b].instructions[i]>>)
         \o Survivors(f, b, i + 1, live_instructions)

\* DeadCodeEliminationPass::remove_dead_instructions
remove_dead_instructions(f, live_instructions) ==
    [b \in 1..Len(f) |-> [f[b] EXCEPT !.instructions = Survivors(f, b, 1, live_instructions)]]

\* DeadCodeEliminationPass::process_function
DeadCodeElimination(f) == remove_dead_instructions(f, mark_live_instructions(f))

(***************************************************************************)
(* CommonSubexpressionEliminationPass                                      *)
(***************************************************************************)
\* InstructionSignature::from_instruction: two signatures are equal when the
\* opcodes are equal and the operands are equal one by one, a constant to a
\* constant of the same text and a reference to a reference of the same name.
InstructionSignature(instr) == <<instr.opcode, instr.operands>>

\* CommonSubexpressionEliminationPass::replace_all_uses
replace_all_uses(f, old_name, new_name) ==
    [b \in 1..Len(f) |->
        [f[b] EXCEPT !.instructions =
            [i \in 1..Len(f[b].instructions) |->
                [f[b].instructions[i] EXCEPT !.operands =
                    [k \in 1..Len(f[b].instructions[i].operands) |->
                        IF f[b].instructions[i].operands[k] = Reference(old_name)
                        THEN Reference(new_name)
                        ELSE f[b].instructions[i].operands[k]]]]]]

\* The loop of CommonSubexpressionEliminationPass::process_basic_block over the
\* instructions of block b, from the i-th on; available_expressions maps the
\* signatures met so far to the name of the first instruction that had each.
RECURSIVE ProcessFrom(_, _, _, _)
ProcessFrom(f, b, i, available_expressions) ==
    IF i > Len(f[b].instructions) THEN f
    ELSE LET instr == f[b].instructions[i]
             signature == InstructionSignature(instr)
         IN  IF ~has_result(instr) \/ has_side_effects(instr)
             THEN ProcessFrom(f, b, i + 1, available_expressions)
             ELSE IF signature \in DOMAIN available_expressions
             THEN ProcessFrom(replace_all_uses(f, get_name(instr).val,
                                               available_expressions[signature]),
                              b, i + 1, available_expressions)
             ELSE ProcessFrom(f, b, i + 1,
                              Insert(available_expressions, signature, get_name(instr).val))

\* CommonSubexpressionEliminationPass::process_basic_block
process_basic_block(f, b) == ProcessFrom(f, b, 1, <<>>)

\* CommonSubexpressionEliminationPass::process_function
RECURSIVE ProcessBlocksFrom(_, _)
ProcessBlocksFrom(f, b) ==
    IF b > Len(f) THEN f ELSE ProcessBlocksFrom(process_basic_block(f, b), b + 1)

CommonSubexpressionElimination(f) == ProcessBlocksFrom(f, 1)

(***************************************************************************)
(* SSARenumberPass                                                         *)
(***************************************************************************)
NamingStrategy == {"Sequential", "TypeBased", "BlockBased"}

\* format!("{}", counter) for a usize: its decimal text.
RECURSIVE DecimalText(_)
DecimalText(n) ==
    IF n < 10 THEN <<DigitChars[n + 1]>>
    ELSE Append(DecimalText(n \div 10), DigitChars[(n % 10) + 1])

\* (Every strategy names as Sequential does.)
NewName_Sequential(strategy, bb, instr, counter) == <<"%">> \o DecimalText(counter)

\* The name given to the result that counter has reached.
NewName(strategy, bb, instr, counter) ==
    CASE strategy = "Sequential" -> <<"%">> \o DecimalText(counter)
      [] strategy = "TypeBased" -> instr.result.val.ty \o <<"_">> \o DecimalText(counter)
      [] strategy = "BlockBased" -> <<"%">> \o bb.name \o <<"_">> \o DecimalText(counter)

\* The loop over the instructions of one block, from the i-th on, counter being
\* the counter on entry: the instructions as they are left and the counter.
RECURSIVE RenumberFrom(_, _, _, _)
RenumberFrom(strategy, bb, i, counter) ==
    IF i > Len(bb.instructions) THEN [instructions |-> <<>>, counter |-> counter]
    ELSE LET instr == bb.instructions[i]
         IN  IF has_result(instr)
             THEN LET rest == RenumberFrom(strategy, bb, i + 1, counter + 1)
                  IN  [instructions |->
                           <<set_name(instr, NewName(strategy, bb, instr, counter))>>
                               \o rest.instructions,
                       counter |-> rest.counter]
             ELSE LET rest == RenumberFrom(strategy, bb, i + 1, counter)
                  IN  [instructions |-> <<instr>> \o rest.instructions,
                       counter |-> rest.counter]

\* The loop over the blocks: one counter for the function under Sequential
\* and TypeBased, a counter that starts again at 0 in every block under
\* BlockBased.
RECURSIVE RenumberBlocksFrom(_, _, _, _)
RenumberBlocksFrom(strategy, f, b, counter) ==
    IF b > Len(f) THEN <<>>
    ELSE LET done == RenumberFrom(strategy, f[b], 1,
                                  IF strategy = "BlockBased" THEN 0 ELSE counter)
         IN  <<[f[b] EXCEPT !.instructions = done.instructions]>>
                 \o RenumberBlocksFrom(strategy, f, b + 1, done.counter)

\* SSARenumberPass::process_function
SSARenumber(strategy, f) == RenumberBlocksFrom(strategy, f, 1, 0)

(***************************************************************************)
(* The functions the passes are run on.  Each family is built from a small *)
(* catalogue of instructions chosen for one pass; every pass is run on     *)
(* every family.                                                           *)
(***************************************************************************)
\* Result names, block names and type strings.
NameX == <<"%", "x">>
NameY == <<"%", "y">>
NameP == <<"%", "p">>
Unnamed == <<>>
Entry == <<"e", "n", "t", "r", "y">>
Exit == <<"e", "x", "i", "t">>
I32 == <<"i", "3", "2">>
U8 == <<"u", "8">>

\* The texts of the constants: 0, 5, 3, -1, i64::MAX, i64::MIN, and a text
\* that is not a numeral.
MaxText == <<"9", "2", "2", "3", "3", "7", "2", "0", "3", "6",
             "8", "5", "4", "7", "7", "5", "8", "0", "7">>
MinText == <<"-", "9", "2", "2", "3", "3", "7", "2", "0", "3", "6",
             "8", "5", "4", "7", "7", "5", "8", "0", "8">>
IntTexts == {<<"0">>, <<"5">>, <<"3">>, <<"-", "1">>, MaxText, MinText, <<"x">>}
FloatTexts == {<<"5">>, <<"-", "1", ".", "5", "0">>, <<"0">>, <<"i", "n", "f">>, <<"x">>}

Result(ty, text) == Some(Value(ty, text))

\* Binary instructions on two constants, one for every opcode the folder
\* knows and one it does not know, and some instructions of other shapes.
FoldOpcodes == FoldableBinary \cup {"cmpeq"}

FoldInstrs ==
    {Instruction(op, Result(I32, NameX), <<Constant(a), Constant(b)>>, {}) :
        op \in FoldOpcodes, a \in IntTexts, b \in IntTexts}
    \cup {Instruction("fneg", Result(I32, NameX), <<Constant(a)>>, {}) : a \in FloatTexts}
    \cup {Instruction("add", None, <<Constant(<<"5">>), Constant(<<"3">>)>>, {}),
          Instruction("add", Result(I32, NameX), <<Constant(<<"5">>)>>, {}),
          Instruction("add", Result(I32, NameX), <<Reference(NameY), Constant(<<"3">>)>>, {}),
          Instruction("add", Result(I32, NameX), <<Reference(<<"5">>), Constant(<<"3">>)>>, {}),
          Instruction("fneg", Result(I32, NameX), <<Constant(<<"5">>), Constant(<<"3">>)>>, {}),
          Instruction("mov", Result(I32, <<"8">>), <<>>, {}),
          Instruction("sdiv", None, <<Constant(<<"5">>), Constant(<<"0">>)>>, {})}

\* A user of %x that may follow the instruction.
FoldUsers == {<<>>, <<Instruction("store", None, <<Reference(NameX), Reference(NameP)>>, {})>>,
              <<Instruction("mul", Result(I32, NameY),
                            <<Constant(<<"5">>), Constant(<<"3">>)>>, {})>>}

FoldFunctions ==
    {<<BasicBlock(Entry, <<i>>)>> : i \in FoldInstrs}
    \cup {<<BasicBlock(Entry, <<i>> \o u)>> :
             i \in {j \in FoldInstrs : /\ j.opcode \in {"add", "sdiv", "fneg"}
                                       /\ \A k \in 1..Len(j.operands) :
                                             j.operands[k].text \in {<<"5">>, <<"3">>, <<"0">>}},
             u \in FoldUsers}

\* Pure and side-effecting instructions, with and without a result, that use
\* each other's results.
DceInstrs ==
    {Instruction("add", Result(I32, NameX), <<Constant(<<"5">>), Constant(<<"3">>)>>, {}),
     Instruction("add", Result(I32, NameY), <<Reference(NameX), Constant(<<"3">>)>>, {}),
     Instruction("add", Result(I32, NameX), <<Reference(NameY), Constant(<<"3">>)>>, {}),
     Instruction("store", None, <<Reference(NameX), Reference(NameP)>>, {}),
     Instruction("store", None, <<Reference(NameY), Reference(NameP)>>, {}),
     Instruction("condbr", None, <<Reference(NameX)>>, {}),
     Instruction("free", None, <<Reference(NameY)>>, {}),
     Instruction("call", Result(I32, NameY), <<Reference(NameX)>>, {}),
     Instruction("load", Result(I32, NameX), <<Reference(NameP)>>, {}),
     Instruction("load", Result(I32, NameY), <<Reference(NameX)>>, {"volatile"}),
     Instruction("ret", None, <<Reference(NameY)>>, {}),
     Instruction("br", None, <<>>, {})}

DceFunctions ==
    {<<BasicBlock(Entry, is)>> : is \in SeqsUpTo(DceInstrs, DceMaxInstrs)}
    \cup {<<BasicBlock(Entry, <<i>>), BasicBlock(Exit, <<j>>)>> : i \in DceInstrs, j \in DceInstrs}

\* CseInstrs instructions of one block, the k-th named %k, each applying the
\* same pure opcode to the result of any of them.
Numbered(k) == <<"%">> \o DecimalText(k)

CseChains ==
    {<<BasicBlock(Entry, [k \in 1..CseInstrs |->
                             Instruction("not", Result(I32, Numbered(k)),
                                         <<Reference(Numbered(g[k]))>>, {})])>> :
        g \in [1..CseInstrs -> 1..CseInstrs]}

\* Instructions with equal and with different signatures, followed in a
\* second block by a user of %y.
NameQ == <<"%", "q">>

CseBlockInstrs ==
    {Instruction("add", Result(I32, NameX), <<Reference(NameP), Reference(NameQ)>>, {}),
     Instruction("add", Result(I32, NameY), <<Reference(NameP), Reference(NameQ)>>, {}),
     Instruction("add", Result(I32, NameY), <<Reference(NameQ), Reference(NameP)>>, {}),
     Instruction("load", Result(I32, NameX), <<Reference(NameP)>>, {}),
     Instruction("load", Result(I32, NameY), <<Reference(NameP)>>, {}),
     Instruction("load", Result(I32, NameY), <<Reference(NameP)>>, {"volatile"}),
     Instruction("store", None, <<Reference(NameY), Reference(NameP)>>, {}),
     Instruction("call", Result(I32, NameX), <<Reference(NameP)>>, {}),
     Instruction("call", Result(I32, NameY), <<Reference(NameP)>>, {}),
     Instruction("condbr", Result(I32, NameX), <<Reference(NameP)>>, {}),
     Instruction("condbr", Result(I32, NameY), <<Reference(NameP)>>, {})}

CseUsers ==
    {<<>>,
     <<BasicBlock(Exit, <<Instruction("ret", None, <<Reference(NameY)>>, {})>>)>>,
     <<BasicBlock(Exit, <<Instruction("mul", Result(I32, NameQ),
                                       <<Reference(NameY), Reference(NameX)>>, {})>>)>>}

\* Two loads of the same address with a store, or nothing, between them.
CseLoadStore ==
    {<<BasicBlock(Entry,
                  <<Instruction("load", Result(I32, NameX), <<Reference(NameP)>>, {})>>
                  \o between
                  \o <<Instruction("load", Result(I32, NameY), <<Reference(NameP)>>, {})>>)>>
        \o u :
        between \in {<<>>, <<Instruction("store", None,
                                         <<Reference(NameQ), Reference(NameP)>>, {})>>},
        u \in CseUsers}

CseFunctions ==
    CseChains \cup CseLoadStore
    \cup {<<BasicBlock(Entry, is)>> \o u : is \in SeqsUpTo(CseBlockInstrs, CseMaxInstrs),
                                            u \in CseUsers}

\* Named and unnamed results of two types and an instruction without a
\* result, in blocks whose names may be equal.
RenumberInstrs ==
    {Instruction("add", Result(I32, NameX), <<>>, {}),
     Instruction("sub", Result(U8, Unnamed), <<>>, {}),
     Instruction("br", None, <<>>, {})}

RenumberBlocks ==
    {BasicBlock(n, is) : n \in {Entry, Exit}, is \in SeqsUpTo(RenumberInstrs, RenumberMaxInstrs)}

RenumberFunctions == SeqsUpTo(RenumberBlocks, MaxBlocks)

PassInputs == FoldFunctions \cup DceFunctions \cup CseFunctions \cup RenumberFunctions

(***************************************************************************)
(* The passes at work: Pass::run of each on the function of the module.    *)
(* ConstantFoldingPass takes one step for every round of its loop and has  *)
(* returned when changed is FALSE; the other passes take one step.         *)
(***************************************************************************)
DcePass == <<"optimizer::DeadCodeEliminationPass", "">>
CsePass == <<"optimizer::CommonSubexpressionEliminationPass", "">>
FoldPass == <<"optimizer::ConstantFoldingPass", "">>
RenumberPass(strategy) == <<"optimizer::SSARenumberPass", strategy>>

\* A pass is started on the function as it is.  The runs explored are the
\* repetitions of one pass, MaxRuns at most.
Start(pass) ==
    /\ ~changed
    /\ Len(applied) < MaxRuns
    /\ \A k \in 1..Len(applied) : applied[k] = pass
    /\ applied' = Append(applied, pass)
    /\ func_before' = func

RunDeadCodeElimination ==
    /\ Start(DcePass)
    /\ func' = DeadCodeElimination(func)
    /\ UNCHANGED changed

RunCommonSubexpressionElimination ==
    /\ Start(CsePass)
    /\ func' = CommonSubexpressionElimination(func)
    /\ UNCHANGED changed

RunSSARenumber(strategy) ==
    /\ Start(RenumberPass(strategy))
    /\ func' = SSARenumber(strategy, func)
    /\ UNCHANGED changed

\* `let mut changed = true;`
StartConstantFolding ==
    /\ Start(FoldPass)
    /\ changed' = TRUE
    /\ UNCHANGED func

\* One round of `while changed { changed = false; ... }`
FoldRound ==
    /\ changed
    /\ \E round \in {FoldScan(func)} : func' = round.func /\ changed' = round.changed
    /\ UNCHANGED <<applied, func_before>>

\* A function to optimize, no pass run on it yet.
InitPasses ==
    /\ NewPassManager /\ NoBlocks /\ NoTypes
    /\ func \in PassInputs
    /\ func_before = func
    /\ applied = <<>>
    /\ changed = FALSE

NextPasses ==
    \/ RunDeadCodeElimination /\ UNCHANGED <<pmvars, bbvars, tyvars>>
    \/ RunCommonSubexpressionElimination /\ UNCHANGED <<pmvars, bbvars, tyvars>>
    \/ (\E strategy \in NamingStrategy : RunSSARenumber(strategy)) /\ UNCHANGED <<pmvars, bbvars, tyvars>>
    \/ StartConstantFolding /\ UNCHANGED <<pmvars, bbvars, tyvars>>
    \/ FoldRound /\ UNCHANGED <<pmvars, bbvars, tyvars>>

SpecPasses == InitPasses /\ [][NextPasses]_vars

(***************************************************************************)
(* Part III: the claims about the passes, under SpecPasses.                *)
(***************************************************************************)
\* The pass has run once (and has returned) on the function func_before.
RanOnce(pass) == applied = <<pass>> /\ ~changed

\* The pass has run twice in succession: the second run, on func_before, has
\* returned.
RanTwice(pass) == applied = <<pass, pass>> /\ ~changed

\* No two instructions of the function that have a result have the same
\* result name.
UniqueNames(f) ==
    \A at \in Range(Places(f)) : \A other \in Range(Places(f)) :
        (/\ at # other
         /\ has_result(InstrAt(f, at))
         /\ has_result(InstrAt(f, other))) =>
            get_name(InstrAt(f, at)) # get_name(InstrAt(f, other))

\* The instructions of the function for which P holds, block by block.
Selected(f, P(_)) == [b \in 1..Len(f) |-> SelectSeq(f[b].instructions, P)]

(***************************************************************************)
(* C11: the result-producing instructions that dead code elimination keeps.*)
(***************************************************************************)
\* Side-effecting as the specification lists it: store, call, ret, br, condbr
\* and a load with the volatile attribute.
SideEffecting(instr) ==
    \/ instr.opcode \in {"store", "call", "ret", "br", "condbr"}
    \/ instr.opcode = "load" /\ has_attribute(instr, "volatile")

\* The names that the reference operands of the instructions at `users` name.
ReferencedBy(f, users) ==
    UNION {{InstrAt(f, at).operands[k].text :
               k \in {j \in 1..Len(InstrAt(f, at).operands) :
                         InstrAt(f, at).operands[j].kind = "Reference"}} :
           at \in users}

\* The result names reachable backward through reference operands from a
\* side-effecting instruction: the least set that holds `names`.
RECURSIVE ReachableNames(_, _)
ReachableNames(f, names) ==
    LET users == {at \in Range(Places(f)) :
                     \/ SideEffecting(InstrAt(f, at))
                     \/ /\ has_result(InstrAt(f, at))
                        /\ get_name(InstrAt(f, at)).val \in names}
        more == ReferencedBy(f, users)
    IN  IF more \subseteq names THEN names ELSE ReachableNames(f, names \cup more)

\* C11: after DeadCodeEliminationPass has run on a function (whose result
\* names are unique), the result-producing instructions that remain are, in
\* every block and in their order, exactly those that are side-effecting
\* (store, call, ret, br, condbr, volatile load) or whose result name is
\* reachable backward through reference operands from a side-effecting
\* instruction.
C11_LiveRemain ==
    (RanOnce(DcePass) /\ UniqueNames(func_before)) =>
        Selected(func, has_result)
            = Selected(func_before,
                       LAMBDA instr :
                           /\ has_result(instr)
                           /\ \/ SideEffecting(instr)
                              \/ get_name(instr).val \in ReachableNames(func_before, {}))

(***************************************************************************)
(* C12: dead code elimination and the instructions without a result.       *)
(***************************************************************************)
\* C12: DeadCodeEliminationPass never deletes an instruction that has no
\* result: after the pass every block holds the instructions without a
\* result that it held before, in their order.
C12_NoResultKept ==
    RanOnce(DcePass) =>
        Selected(func, LAMBDA instr : ~has_result(instr))
            = Selected(func_before, LAMBDA instr : ~has_result(instr))

(***************************************************************************)
(* C13: what common subexpression elimination does with a repeated         *)
(* expression.                                                             *)
(***************************************************************************)
\* Pure as the specification lists it, and result-producing.
PureWithResult(instr) == has_result(instr) /\ ~SideEffecting(instr)

\* The signature of the specification: the opcode and the ordered operand names.
Signature(instr) ==
    <<instr.opcode, [k \in 1..Len(instr.operands) |-> instr.operands[k].text]>>

\* The earlier instructions of block b that the j-th instruction repeats.
Repeated(f, b, j) ==
    {i \in 1..(j - 1) :
        /\ PureWithResult(f[b].instructions[i])
        /\ PureWithResult(f[b].instructions[j])
        /\ Signature(f[b].instructions[i]) = Signature(f[b].instructions[j])}

\* Some operand of the function references the name.
Referenced(f, text) ==
    \E at \in Range(Places(f)) :
        \E k \in 1..Len(InstrAt(f, at).operands) :
            InstrAt(f, at).operands[k] = Reference(text)

\* C13: when the pass meets a pure result-producing instruction whose
\* signature equals that of an earlier instruction of its block, then after
\* the pass no operand of the function references the later instruction's
\* result name any more (the operands that did reference the earlier name)
\* and the later instruction is no longer in the block.
C13_LaterReplaced ==
    (RanOnce(CsePass) /\ UniqueNames(func_before)) =>
        \A b \in 1..Len(func_before) : \A j \in 1..Len(func_before[b].instructions) :
            Repeated(func_before, b, j) # {} =>
                /\ ~Referenced(func, get_name(func_before[b].instructions[j]).val)
                /\ \A i \in 1..Len(func[b].instructions) :
                      get_name(func[b].instructions[i])
                          # get_name(func_before[b].instructions[j])

(***************************************************************************)
(* C14: the value that constant folding computes.                          *)
(***************************************************************************)
\* An instruction with a result that applies one of the opcodes to two
\* constants that are texts of integers of 64 bits.
OnIntegers(instr, opcodes) ==
    /\ instr.opcode \in opcodes
    /\ has_result(instr)
    /\ Len(instr.operands) = 2
    /\ \A k \in 1..2 : /\ instr.operands[k].kind = "Constant"
                       /\ ParseI64(instr.operands[k].text).some

Lhs(instr) == ParseI64(instr.operands[1].text).val
Rhs(instr) == ParseI64(instr.operands[2].text).val

\* The exact mathematical sum, difference or product.
Exact(instr) ==
    CASE instr.opcode = "add" -> IntAdd(Lhs(instr), Rhs(instr))
      [] instr.opcode = "sub" -> IntSub(Lhs(instr), Rhs(instr))
      [] instr.opcode = "mul" -> IntMul(Lhs(instr), Rhs(instr))

\* An integer modulo 2^64, read as a signed integer of 64 bits.
Wrapping(x) ==
    With(NatDivMod(x.mag, Pow64).rem, LAMBDA m :
        AsI64(IF x.neg /\ m # <<>> THEN NatSub(Pow64, m) ELSE m))

\* Bit k (0..63) of the two's complement of an i64.
Bit(x, k) == NatValue(NatDivMod(NatDivMod(AsU64(x), Pow2(k)).quot, <<2>>).rem)

\* The instruction is the mov that folding to the value v leaves.
FoldedTo(instr, before, v) == instr = replace_with_constant(before, to_string(v))

\* The instruction is a folded one whose value is, bit by bit, the and, or,
\* xor of the two constants.
FoldedBitwise(instr, before) ==
    /\ ParseI64(get_name(instr).val).some
    /\ FoldedTo(instr, before, ParseI64(get_name(instr).val).val)
    /\ \A k \in 0..63 :
          LET l == Bit(Lhs(before), k)
              r == Bit(Rhs(before), k)
          IN  Bit(ParseI64(get_name(instr).val).val, k)
                  = CASE before.opcode = "and" -> l * r
                      [] before.opcode = "or" -> l + r - l * r
                      [] before.opcode = "xor" -> (l + r) % 2

\* C14 as stated: after the pass an add, sub or mul of two integer
\* constants has become the constant that is the wrapping (modulo 2^64,
\* read as signed 64-bit) sum, difference or product, also when the exact
\* result does not fit in 64 bits, and an and, or, xor has become the
\* ordinary bitwise result.
C14_WrappingFold ==
    RanOnce(FoldPass) =>
        \A b \in 1..Len(func_before) : \A i \in 1..Len(func_before[b].instructions) :
            LET before == func_before[b].instructions[i]
                after == func[b].instructions[i]
            IN  /\ OnIntegers(before, {"add", "sub", "mul"}) =>
                      FoldedTo(after, before, Wrapping(Exact(before)))
                /\ OnIntegers(before, {"and", "or", "xor"}) => FoldedBitwise(after, before)

\* C14, amended: after the pass an add, sub or mul of two integer constants
\* has become the constant that is the exact sum, difference or product when
\* that fits in a signed 64-bit integer (where it is also the wrapping
\* result) and is unmodified when it does not fit; an and, or, xor has
\* become the ordinary bitwise result.
C14_CheckedFold ==
    RanOnce(FoldPass) =>
        \A b \in 1..Len(func_before) : \A i \in 1..Len(func_before[b].instructions) :
            LET before == func_before[b].instructions[i]
                after == func[b].instructions[i]
            IN  /\ OnIntegers(before, {"add", "sub", "mul"}) =>
                      IF InI64(Exact(before))
                      THEN /\ FoldedTo(after, before, Exact(before))
                           /\ Wrapping(Exact(before)) = Exact(before)
                      ELSE after = before
                /\ OnIntegers(before, {"and", "or", "xor"}) => FoldedBitwise(after, before)

\* The pass has returned from a function whose first instruction is the mul of
\* i64::MAX and 5, whose exact product does not fit, and has left it as it was.
C14_Witness ==
    /\ RanOnce(FoldPass)
    /\ Len(func_before) >= 1 /\ Len(func_before[1].instructions) >= 1
    /\ OnIntegers(func_before[1].instructions[1], {"mul"})
    /\ ~InI64(Exact(func_before[1].instructions[1]))
    /\ Lhs(func_before[1].instructions[1]) = ParseI64(MaxText).val
    /\ Rhs(func_before[1].instructions[1]) = ParseI64(<<"5">>).val
    /\ func[1].instructions[1] = func_before[1].instructions[1]

(***************************************************************************)
(* C15: constant folding and division by zero.                             *)
(***************************************************************************)
Divisions == {"sdiv", "udiv", "srem", "urem"}

\* A division or remainder of two constants, whatever their texts.
OnConstants(instr, opcodes) ==
    /\ instr.opcode \in opcodes
    /\ Len(instr.operands) = 2
    /\ \A k \in 1..2 : instr.operands[k].kind = "Constant"

\* The constant zero as a divisor: a text that reads as the integer 0.
ZeroDivisor(instr) ==
    /\ ParseI64(instr.operands[2].text).some
    /\ ParseI64(instr.operands[2].text).val = IntOf(FALSE, <<>>)

\* C15: the pass returns from a function that holds an sdiv, udiv, srem or
\* urem of two constants, whatever the constants are, with that instruction
\* either as it was or folded to the text of a signed 64-bit integer; when
\* the divisor is the constant zero the instruction is as it was (same
\* opcode, operands and result name).
C15_DivisionByZero ==
    RanOnce(FoldPass) =>
        \A b \in 1..Len(func_before) : \A i \in 1..Len(func_before[b].instructions) :
            LET before == func_before[b].instructions[i]
                after == func[b].instructions[i]
            IN  OnConstants(before, Divisions) =>
                    /\ \/ after = before
                       \/ /\ has_result(after)
                          /\ ParseI64(get_name(after).val).some
                          /\ FoldedTo(after, before, ParseI64(get_name(after).val).val)
                    /\ ZeroDivisor(before) => after = before

\* The pass has returned from a function whose first instruction is an sdiv
\* by the constant 0, and has left it as it was.
C15_Witness ==
    /\ RanOnce(FoldPass)
    /\ Len(func_before) >= 1 /\ Len(func_before[1].instructions) >= 1
    /\ OnConstants(func_before[1].instructions[1], {"sdiv"})
    /\ has_result(func_before[1].instructions[1])
    /\ func_before[1].instructions[1].operands[1].text = <<"5">>
    /\ ZeroDivisor(func_before[1].instructions[1])
    /\ func[1].instructions[1] = func_before[1].instructions[1]

(***************************************************************************)
(* C16: what folding does to an instruction.                               *)
(***************************************************************************)
\* The pass folds the instruction: the text of its value is computed and
\* try_fold_instruction returns true.
Folds(instr) == try_fold_instruction(instr).folded

\* The text of the value computed for an instruction that the pass folds.
ComputedText(instr) ==
    IF Len(instr.operands) = 2
    THEN compute_constant_expression(instr.opcode, instr.operands[1].text,
                                     instr.operands[2].text).val
    ELSE compute_unary_expression(instr.opcode, instr.operands[1].text).val

\* C16: in every round of the pass every instruction stays at its position,
\* and an instruction that the round folds becomes a mov with an empty
\* operand list whose result name is the decimal text of the computed
\* value, which the pass does not fold again.
C16_FoldedToMov ==
    [][changed =>
          \A b \in 1..Len(func) :
              /\ Len(func'[b].instructions) = Len(func[b].instructions)
              /\ \A i \in 1..Len(func[b].instructions) :
                    Folds(func[b].instructions[i]) =>
                        /\ func'[b].instructions[i].opcode = "mov"
                        /\ func'[b].instructions[i].operands = <<>>
                        /\ get_name(func'[b].instructions[i])
                               = Some(ComputedText(func[b].instructions[i]))
                        /\ ~Folds(func'[b].instructions[i])]_vars

\* C16 for the instructions that have a result.
C16_WithResult ==
    [][changed =>
          \A b \in 1..Len(func) :
              /\ Len(func'[b].instructions) = Len(func[b].instructions)
              /\ \A i \in 1..Len(func[b].instructions) :
                    (Folds(func[b].instructions[i]) /\ has_result(func[b].instructions[i])) =>
                        /\ func'[b].instructions[i].opcode = "mov"
                        /\ func'[b].instructions[i].operands = <<>>
                        /\ get_name(func'[b].instructions[i])
                               = Some(ComputedText(func[b].instructions[i]))
                        /\ ~Folds(func'[b].instructions[i])]_vars

(***************************************************************************)
(* C17: the names that SSA renumbering gives.                              *)
(***************************************************************************)
\* The number of result-producing instructions that come before the i-th
\* instruction of block b: in the whole function (block order, then the
\* order in the block), or in block b alone.
ResultsBefore(f, b, i, in_function) ==
    Cardinality({at \in Range(Places(f)) :
                    /\ has_result(InstrAt(f, at))
                    /\ \/ at[1] = b /\ at[2] < i
                       \/ in_function /\ at[1] < b})

\* The name of the claim for the i-th instruction of block b.
ClaimedName(strategy, f, b, i) ==
    CASE strategy = "Sequential" ->
            <<"%">> \o DecimalText(ResultsBefore(f, b, i, TRUE))
      [] strategy = "TypeBased" ->
            f[b].instructions[i].result.val.ty \o <<"_">>
                \o DecimalText(ResultsBefore(f, b, i, TRUE))
      [] strategy = "BlockBased" ->
            <<"%">> \o f[b].name \o <<"_">> \o DecimalText(ResultsBefore(f, b, i, FALSE))

\* C17: after SSARenumberPass has run, the k-th result-producing instruction
\* of the function (from 0, in block order and then in the order of the
\* block) is named %k under Sequential and <type>_k under TypeBased; under
\* BlockBased the k-th result-producing instruction of a block named b is
\* named %b_k, counting from 0 in every block.  Nothing else changes: the
\* instructions without a result are as they were and are not counted.
C17_Names ==
    \A strategy \in NamingStrategy :
        RanOnce(RenumberPass(strategy)) =>
            /\ Len(func) = Len(func_before)
            /\ \A b \in 1..Len(func_before) :
                  /\ func[b].name = func_before[b].name
                  /\ Len(func[b].instructions) = Len(func_before[b].instructions)
                  /\ \A i \in 1..Len(func_before[b].instructions) :
                        LET before == func_before[b].instructions[i]
                            after == func[b].instructions[i]
                        IN  IF has_result(before)
                            THEN /\ get_name(after)
                                        = Some(ClaimedName(strategy, func_before, b, i))
                                 /\ after = set_name(before, get_name(after).val)
                            ELSE after = before

\* BlockBased has run on two blocks, entry and exit, of two result-producing
\* instructions each, and the last of them is named %exit_1.
C17_Witness ==
    /\ RanOnce(RenumberPass("BlockBased"))
    /\ Len(func) = 2
    /\ func[1].name = Entry /\ func[2].name = Exit
    /\ \A b \in 1..2 : /\ Len(func[b].instructions) = 2
                       /\ \A i \in 1..2 : has_result(func[b].instructions[i])
    /\ get_name(func[1].instructions[1]) = Some(<<"%", "e", "n", "t", "r", "y", "_", "0">>)
    /\ get_name(func[2].instructions[2]) = Some(<<"%", "e", "x", "i", "t", "_", "1">>)

(***************************************************************************)
(* C18: the names after SSA renumbering are unique.                        *)
(***************************************************************************)
\* C18: after SSARenumberPass has run with any of its three strategies, no
\* two result-producing instructions of the function have the same result
\* name, whatever names the instructions and the blocks had before.
C18_UniqueAfterRenumber ==
    \A strategy \in NamingStrategy :
        RanOnce(RenumberPass(strategy)) => UniqueNames(func)

(***************************************************************************)
(* Part IV.  The instruction lists of the basic blocks                     *)
(* (src/src/ir/basic_block.rs) and the parent back-reference of the        *)
(* instructions (src/src/ir/instruction.rs).  Blocks and instructions are  *)
(* shared references (Rc<RefCell<..>>): a block is its number, an          *)
(* instruction is its number, `instructions` gives each block's Vec of     *)
(* instruction references and `parent_bb` each instruction's               *)
(* Option<BasicBlockRef>.                                                  *)
(***************************************************************************)
MaxInstructionRefs == 2
MaxListed == 2

\* The basic blocks and the instructions that have been constructed.
BasicBlockRefs == 1..MaxBlocks
InstructionRefs == 1..MaxInstructionRefs

\* Vec::insert and Vec::remove, on 0-based positions as in the source.
VecInsert(s, index, x) == SubSeq(s, 1, index) \o <<x>> \o SubSeq(s, index + 1, Len(s))
VecRemove(s, pos) == SubSeq(s, 1, pos) \o SubSeq(s, pos + 2, Len(s))

\* Instruction::set_parent_bb
set_parent_bb(instruction, bb) == [parent_bb EXCEPT ![instruction] = bb]

\* BasicBlock::add_instruction
add_instruction(self, instruction, this_bb_ref) ==
    /\ Len(instructions[self]) < MaxListed
    /\ parent_bb' = set_parent_bb(instruction, Some(this_bb_ref))
    /\ instructions' = [instructions EXCEPT ![self] = Append(@, instruction)]

\* BasicBlock::insert_instruction; the assert on the index is the guard.
insert_instruction(self, index, instruction, this_bb_ref) ==
    /\ Len(instructions[self]) < MaxListed
    /\ index <= Len(instructions[self])
    /\ parent_bb' = set_parent_bb(instruction, Some(this_bb_ref))
    /\ instructions' = [instructions EXCEPT ![self] = VecInsert(@, index, instruction)]

\* BasicBlock::remove_instruction: the first position holding the reference
\* (Rc::ptr_eq); nothing changes when the block does not list it.
remove_instruction(self, instruction) ==
    IF Contains(instructions[self], instruction)
    THEN /\ parent_bb' = set_parent_bb(instruction, None)
         /\ instructions' =
                [instructions EXCEPT ![self] = VecRemove(@, Position(@, instruction) - 1)]
    ELSE UNCHANGED <<instructions, parent_bb>>

\* BasicBlock::clear_instructions
clear_instructions(self) ==
    /\ parent_bb' = [i \in DOMAIN parent_bb |->
                        IF Contains(instructions[self], i) THEN None ELSE parent_bb[i]]
    /\ instructions' = [instructions EXCEPT ![self] = <<>>]

\* BasicBlock::new for every block and Instruction::new for every instruction.
InitBlocks ==
    /\ NewPassManager /\ NoFunction /\ NoTypes
    /\ instructions = [bb \in BasicBlockRefs |-> <<>>]
    /\ parent_bb = [i \in InstructionRefs |-> None]

\* The callers hand a block its own reference as this_bb_ref
\* (bb.borrow_mut().add_instruction(inst, bb.clone())).
NextBlocks ==
    \/ (\E bb \in BasicBlockRefs, i \in InstructionRefs : add_instruction(bb, i, bb))
           /\ UNCHANGED <<pmvars, irvars, tyvars>>
    \/ (\E bb \in BasicBlockRefs, i \in InstructionRefs, index \in 0..MaxListed :
            insert_instruction(bb, index, i, bb))
           /\ UNCHANGED <<pmvars, irvars, tyvars>>
    \/ (\E bb \in BasicBlockRefs, i \in InstructionRefs : remove_instruction(bb, i))
           /\ UNCHANGED <<pmvars, irvars, tyvars>>
    \/ (\E bb \in BasicBlockRefs : clear_instructions(bb))
           /\ UNCHANGED <<pmvars, irvars, tyvars>>

SpecBlocks == InitBlocks /\ [][NextBlocks]_vars

\* C19: after any sequence of add_instruction, insert_instruction,
\* remove_instruction and clear_instructions calls, an instruction is listed
\* in a block if and only if its parent back-reference points to that block
\* (so it is listed in at most one block, and a removed instruction has its
\* back-reference cleared).
C19_ListedIffParent ==
    \A bb \in DOMAIN instructions, i \in DOMAIN parent_bb :
        Contains(instructions[bb], i) <=> parent_bb[i] = Some(bb)

(***************************************************************************)
(* C20: running a pass twice.                                              *)
(***************************************************************************)
\* The four passes (SSA renumbering with each of its strategies).
Passes == {DcePass, CsePass, FoldPass} \cup {RenumberPass(strategy) : strategy \in NamingStrategy}

\* C20: for each of the four passes, running the pass twice in succession
\* leaves the function in the same state as running it once: the second run
\* changes nothing.
C20_Idempotent ==
    \A pass \in Passes : RanTwice(pass) => func = func_before

(***************************************************************************)
(* Part V.  The type system (src/src/ir/types.rs).  A Type is an object    *)
(* behind a shared reference (TypeRef = Rc<RefCell<Type>>): `types` lists  *)
(* the objects created so far and a TypeRef is a position in it.  The kind *)
(* of a Vector, Pointer or Function type holds TypeRefs, so two types with *)
(* the same components can be different objects built from different      *)
(* objects.                                                                *)
(***************************************************************************)
MaxTypes == 4
MaxLength == 2
MaxParams == 2

IntKinds == {"Int8", "Uint8", "Int16", "Uint16", "Int32", "Uint32"}
BitKinds == {"Bit8", "Bit16", "Bit32"}
\* ir::MemorySpace
MemorySpace == {"Generic", "VSPM", "SRAM", "Parameter"}
\* The u32 lengths the callers use.
Lengths == 1..MaxLength

\* TypeKind, one constructor per variant.
Scalar(kind) == [tag |-> kind]
Void == [tag |-> "Void"]
Predicate(length) == [tag |-> "Predicate", length |-> length]
Vector(element_type, length) ==
    [tag |-> "Vector", element_type |-> element_type, length |-> length]
Pointer(pointee_type, space) ==
    [tag |-> "Pointer", pointee_type |-> pointee_type, space |-> space]
Function(return_type, param_types) ==
    [tag |-> "Function", return_type |-> return_type, param_types |-> param_types]

\* Rc::new(RefCell::new(Type::new(kind))): a new object.
NewType(kind) ==
    /\ Len(types) < MaxTypes
    /\ types' = Append(types, kind)

TypeRefs == 1..Len(types)

get_int_type(kind) == kind \in IntKinds /\ NewType(Scalar(kind))
get_bit_type(kind) == kind \in BitKinds /\ NewType(Scalar(kind))
get_vector_type(element_type, length) == NewType(Vector(element_type, length))
get_predicate_type(length) == NewType(Predicate(length))
get_pointer_type(pointee_type, space) == NewType(Pointer(pointee_type, space))
get_function_type(return_type, param_types) == NewType(Function(return_type, param_types))
get_void_type == NewType(Void)

\* A comparison of the memory spaces that takes any two for equal.
SpaceEq_Any(space_self, space_other) == TRUE
\* MemorySpace's derived PartialEq.
SpaceEq(space_self, space_other) == space_self = space_other

\* impl PartialEq for TypeKind, on the objects the references a and b point
\* to (the derived PartialEq of Type compares the kinds).
RECURSIVE TypeEq(_, _)
TypeEq(a, b) ==
    CASE types[a].tag = "Vector" /\ types[b].tag = "Vector" ->
            /\ types[a].length = types[b].length
            /\ TypeEq(types[a].element_type, types[b].element_type)
      [] types[a].tag = "Predicate" /\ types[b].tag = "Predicate" ->
            types[a].length = types[b].length
      [] types[a].tag = "Pointer" /\ types[b].tag = "Pointer" ->
            /\ SpaceEq(types[a].space, types[b].space)
            /\ TypeEq(types[a].pointee_type, types[b].pointee_type)
      [] types[a].tag = "Function" /\ types[b].tag = "Function" ->
            /\ TypeEq(types[a].return_type, types[b].return_type)
            /\ Len(types[a].param_types) = Len(types[b].param_types)
            /\ \A k \in 1..Len(types[a].param_types) :
                  TypeEq(types[a].param_types[k], types[b].param_types[k])
      [] OTHER -> types[a].tag = types[b].tag
                  /\ types[a].tag \in IntKinds \cup BitKinds \cup {"Void"}

\* What the Hasher is fed: strings and numbers, in order.
HashStr(s) == <<[str |-> s, num |-> 0]>>
HashNum(n) == <<[str |-> "", num |-> n]>>

RECURSIVE Concat(_)
Concat(ss) == IF ss = <<>> THEN <<>> ELSE Head(ss) \o Concat(Tail(ss))

\* impl Hash for TypeKind: the writes to the Hasher, whose result is a
\* function of them.
RECURSIVE TypeHash(_)
TypeHash(a) ==
    CASE types[a].tag = "Vector" ->
            HashStr("Vector") \o TypeHash(types[a].element_type) \o HashNum(types[a].length)
      [] types[a].tag = "Predicate" ->
            HashStr("Predicate") \o HashNum(types[a].length)
      [] types[a].tag = "Pointer" ->
            HashStr("Pointer") \o TypeHash(types[a].pointee_type) \o HashStr(types[a].space)
      [] types[a].tag = "Function" ->
            HashStr("Function") \o TypeHash(types[a].return_type)
                \o Concat([k \in 1..Len(types[a].param_types) |->
                              TypeHash(types[a].param_types[k])])
      [] OTHER -> HashStr(types[a].tag)

NextTypes ==
    \/ (\E kind \in IntKinds : get_int_type(kind)) /\ UNCHANGED <<pmvars, irvars, bbvars>>
    \/ (\E kind \in BitKinds : get_bit_type(kind)) /\ UNCHANGED <<pmvars, irvars, bbvars>>
    \/ (\E element_type \in TypeRefs, length \in Lengths :
            get_vector_type(element_type, length)) /\ UNCHANGED <<pmvars, irvars, bbvars>>
    \/ (\E length \in Lengths : get_predicate_type(length)) /\ UNCHANGED <<pmvars, irvars, bbvars>>
    \/ (\E pointee_type \in TypeRefs, space \in MemorySpace :
            get_pointer_type(pointee_type, space)) /\ UNCHANGED <<pmvars, irvars, bbvars>>
    \/ (\E return_type \in TypeRefs, param_types \in SeqsUpTo(TypeRefs, MaxParams) :
            get_function_type(return_type, param_types)) /\ UNCHANGED <<pmvars, irvars, bbvars>>
    \/ get_void_type /\ UNCHANGED <<pmvars, irvars, bbvars>>

InitTypes == NewPassManager /\ NoFunction /\ NoBlocks /\ NoTypes

SpecTypes == InitTypes /\ [][NextTypes]_vars

\* The structural components of a type, the referenced types unfolded.
RECURSIVE Components(_)
Components(a) ==
    CASE types[a].tag = "Vector" ->
            <<"Vector", Components(types[a].element_type), types[a].length>>
      [] types[a].tag = "Predicate" -> <<"Predicate", types[a].length>>
      [] types[a].tag = "Pointer" ->
            <<"Pointer", Components(types[a].pointee_type), types[a].space>>
      [] types[a].tag = "Function" ->
            <<"Function", Components(types[a].return_type),
              [k \in 1..Len(types[a].param_types) |-> Components(types[a].param_types[k])]>>
      [] OTHER -> <<types[a].tag>>

\* C21: two types built from identical structural components are equal
\* whatever objects they are (recursively for Vector, Pointer with its
\* memory space, and Function), types that differ in a component are
\* unequal, and equal types feed the Hasher the same writes.
C21_StructuralEquality ==
    \A a, b \in TypeRefs :
        /\ TypeEq(a, b) <=> Components(a) = Components(b)
        /\ TypeEq(a, b) => TypeHash(a) = TypeHash(b)

\* Two equal pointer types that are different objects built from different
\* objects.
C21_Witness ==
    \E a, b \in TypeRefs :
        /\ a # b
        /\ types[a].tag = "Pointer" /\ types[b].tag = "Pointer"
        /\ types[a].pointee_type # types[b].pointee_type
        /\ TypeEq(a, b)

(***************************************************************************)
(* C22: termination of ConstantFoldingPass.  The loop of process_function  *)
(* goes on as long as a round is pending: weak fairness of FoldRound.  A   *)
(* round that reports a change without changing the function leaves the    *)
(* state as it is, with `changed` TRUE for ever: the loop does not end.    *)
(***************************************************************************)
\* ConstantFoldingPass alone, on the functions with foldable instructions.
InitFold == InitPasses /\ func \in FoldFunctions

NextFold ==
    \/ StartConstantFolding /\ UNCHANGED <<pmvars, bbvars, tyvars>>
    \/ FoldRound /\ UNCHANGED <<pmvars, bbvars, tyvars>>

SpecFold == InitFold /\ [][NextFold]_vars /\ WF_irvars(FoldRound)

\* An instruction with a foldable opcode, exactly two constant operands and
\* a computable result.
StillFoldable(instr) ==
    /\ instr.opcode \in FoldableBinary
    /\ Len(instr.operands) = 2
    /\ instr.operands[1].kind = "Constant" /\ instr.operands[2].kind = "Constant"
    /\ compute_constant_expression(instr.opcode, instr.operands[1].text,
                                   instr.operands[2].text).some

\* C22: ConstantFoldingPass terminates on every function: the repeated scan
\* reaches a scan that makes no change, and then no instruction with a
\* foldable opcode, two constant operands and a computable result remains.
C22_Terminates ==
    changed ~> (/\ ~changed
                /\ \A b \in 1..Len(func) : \A i \in 1..Len(func[b].instructions) :
                       ~StillFoldable(func[b].instructions[i]))

(***************************************************************************)
(* C23: what ConstantFoldingPass leaves alone.                             *)
(***************************************************************************)
\* The instruction at a place has been modified by the step.
Modified(b, i) == func'[b].instructions[i] # func[b].instructions[i]

\* Two operands, both constants that read as integers.
TwoIntegerConstants(instr) ==
    /\ Len(instr.operands) = 2
    /\ \A k \in 1..2 : /\ instr.operands[k].kind = "Constant"
                       /\ ParseI64(instr.operands[k].text).some

\* One operand, a constant that reads as a floating-point number.
OneFloatConstant(instr) ==
    /\ Len(instr.operands) = 1
    /\ instr.operands[1].kind = "Constant"
    /\ NegatedF64(instr.operands[1].text).some

ToBeSkipped(instr) ==
    \/ ~has_result(instr)
    \/ instr.opcode \in {"store", "call", "ret", "br", "condbr"}
    \/ instr.opcode = "load" /\ "volatile" \in instr.attributes

\* The result names of the function that only instructions to be skipped
\* define.
SkippedNames(f) ==
    {get_name(InstrAt(f, at)).val :
        at \in {p \in Range(Places(f)) : has_result(InstrAt(f, p)) /\ ToBeSkipped(InstrAt(f, p))}}
    \ {get_name(InstrAt(f, at)).val :
        at \in {p \in Range(Places(f)) : has_result(InstrAt(f, p)) /\ ~ToBeSkipped(InstrAt(f, p))}}

\* C24: CommonSubexpressionEliminationPass never eliminates an instruction
\* that has no result or is side-effecting, never rewrites a use of its
\* result and never records it as an available expression (no use is
\* rewritten to its result): such instructions all remain and the operands
\* that name them are the same before and after the pass.
C24_SkippedUntouched ==
    RanOnce(CsePass) =>
        /\ Len(func) = Len(func_before)
        /\ \A b \in 1..Len(func) :
              /\ Len(func[b].instructions) = Len(func_before[b].instructions)
              /\ \A i \in 1..Len(func[b].instructions) :
                    /\ ToBeSkipped(func_before[b].instructions[i]) =>
                           /\ func[b].instructions[i].opcode
                                  = func_before[b].instructions[i].opcode
                           /\ func[b].instructions[i].result
                                  = func_before[b].instructions[i].result
                    /\ \A k \in 1..Len(func[b].instructions[i].operands) :
                           \A n \in SkippedNames(func_before) :
                               func[b].instructions[i].operands[k] = Reference(n)
                                   <=> func_before[b].instructions[i].operands[k] = Reference(n)

(***************************************************************************)
(* C25: has_result and the opcode.                                         *)
(***************************************************************************)
\* C25: for every instruction of the function, however it was constructed,
\* has_result is false when the opcode is br, condbr, ret, store or free and
\* true for every other opcode.
C25_ResultByOpcode ==
    \A at \in Range(Places(func)) :
        has_result(InstrAt(func, at))
            <=> InstrAt(func, at).opcode \notin {"br", "condbr", "ret", "store", "free"}

(***************************************************************************)
(* C26: CircularDependency and pipelines with repeated identifiers.        *)
(***************************************************************************)
\* C26: run returns CircularDependency only if the dependency graph
\* restricted to the pipeline contains a cycle; a pipeline of registered
\* passes that lists an identifier more than once and whose dependencies are
\* registered and acyclic is executed successfully.
C26_CycleOnlyIfCyclic ==
    RunReturned =>
        /\ ret.kind = "CircularDependency" => Cyclic
        /\ (/\ ~NoDuplicates(pipeline) /\ PipelineRegistered /\ AllDepsRegistered
            /\ ~Cyclic) => ret.kind = "Ok"

(***************************************************************************)
(* C27: the in-degree counters of the topological sort.                    *)
(***************************************************************************)
\* C27: in the topological sort of a run, no in-degree is decremented when
\* it is already zero (so the sort never panics), whatever the registry and
\* the pipeline are.
C27_NoUnderflow ==
    RunReturned =>
        /\ ret.kind # "Panic"
        /\ \A s \in topological_sort(registered, pipeline) : ~s.underflow

(***************************************************************************)
(* C28: no surviving use of a deleted definition.                          *)
(***************************************************************************)
\* Some instruction of the function has a result of this name.
Defines(f, text) == \E at \in Range(Places(f)) : get_name(InstrAt(f, at)) = Some(text)

\* C28: after DeadCodeEliminationPass, every reference operand of a
\* surviving instruction that named the result of an instruction of the
\* function before the pass names the result of an instruction that
\* survives.
C28_NoDanglingUse ==
    RanOnce(DcePass) =>
        \A at \in Range(Places(func)) :
            \A k \in 1..Len(InstrAt(func, at).operands) :
                (/\ InstrAt(func, at).operands[k].kind = "Reference"
                 /\ Defines(func_before, InstrAt(func, at).operands[k].text))
                    => Defines(func, InstrAt(func, at).operands[k].text)

\* The pass has deleted an instruction and has kept one whose operand names
\* the result of another, which in turn names the result of a third.
C28_Witness ==
    /\ RanOnce(DcePass)
    /\ func # func_before
    /\ \E at, def \in Range(Places(func)) :
          \E k \in 1..Len(InstrAt(func, at).operands) :
              /\ InstrAt(func, at).operands[k].kind = "Reference"
              /\ get_name(InstrAt(func, def)) = Some(InstrAt(func, at).operands[k].text)
              /\ ~has_side_effects(InstrAt(func, def))
              /\ \E j \in 1..Len(InstrAt(func, def).operands) :
                    /\ InstrAt(func, def).operands[j].kind = "Reference"
                    /\ Defines(func, InstrAt(func, def).operands[j].text)

(***************************************************************************)
(* C29: the users of a folded instruction.                                 *)
(***************************************************************************)
\* C29: after ConstantFoldingPass, every reference operand that named the
\* result of an instruction of the function before the pass still names the
\* result of an instruction of the function.
C29_NoDanglingReference ==
    RanOnce(FoldPass) =>
        \A at \in Range(Places(func)) :
            \A k \in 1..Len(InstrAt(func, at).operands) :
                (/\ InstrAt(func, at).operands[k].kind = "Reference"
                 /\ Defines(func_before, InstrAt(func, at).operands[k].text))
                    => Defines(func, InstrAt(func, at).operands[k].text)

(***************************************************************************)
(* C30: loads across a store.                                              *)
(***************************************************************************)
NonVolatileLoad(instr) ==
    instr.opcode = "load" /\ has_result(instr) /\ "volatile" \notin instr.attributes

\* In block b of f, i and k are non-volatile loads of the same address with
\* different result names and a store lies between them.
LoadsAcrossStore(f, b, i, k) ==
    /\ i < k
    /\ NonVolatileLoad(f[b].instructions[i]) /\ NonVolatileLoad(f[b].instructions[k])
    /\ f[b].instructions[i].operands = f[b].instructions[k].operands
    /\ get_name(f[b].instructions[i]) # get_name(f[b].instructions[k])
    /\ \E j \in (i + 1)..(k - 1) : f[b].instructions[j].opcode = "store"

\* C30: CommonSubexpressionEliminationPass never replaces a use of a
\* non-volatile load by the result of an earlier load of the same address in
\* the same block when a store lies between the two loads.
C30_NoReuseAcrossStore ==
    RanOnce(CsePass) =>
        \A b \in 1..Len(func_before) :
            \A i, k \in 1..Len(func_before[b].instructions) :
                LoadsAcrossStore(func_before, b, i, k) =>
                    \A at \in Range(Places(func_before)) :
                        \A o \in 1..Len(InstrAt(func_before, at).operands) :
                            InstrAt(func_before, at).operands[o]
                                    = Reference(get_name(func_before[b].instructions[k]).val)
                                => InstrAt(func, at).operands[o]
                                       # Reference(get_name(func_before[b].instructions[i]).val)

====
